---------------------------- MODULE Spec2Model ----------------------------
(***************************************************************************)
(* A model of gmshairfoil2d: main() of gmshairfoil2d.py, the contour       *)
(* sources of airfoil_func.py and AirfoilSpline / CType / outofbounds of   *)
(* geometry_def.py.  Coordinates and sizes are exact rationals <<n, d>>    *)
(* (d > 0, lowest terms) standing for the program's floats; the gmsh       *)
(* session is a record of the calls made to it.                            *)
(***************************************************************************)
EXTENDS Integers, Sequences, FiniteSets, TLC

VARIABLES pc, args, cloud, kern, af, ct, err, dat, conf

vars == <<pc, args, cloud, kern, af, ct, err, dat, conf>>

---------------------------------------------------------------------------
(* Exact arithmetic for the float expressions of the source.               *)

Abs(n) == IF n < 0 THEN -n ELSE n

RECURSIVE Gcd(_, _)
Gcd(a, b) == IF b = 0 THEN a ELSE Gcd(b, a % b)

Rat(n, d) ==
  LET s == IF d < 0 THEN -1 ELSE 1
      g == Gcd(Abs(n), Abs(d))
  IN  <<(s * n) \div g, (s * d) \div g>>

RInt(n) == <<n, 1>>
RAdd(p, q) ==
  LET g == Gcd(p[2], q[2])
  IN  Rat(p[1] * (q[2] \div g) + q[1] * (p[2] \div g), (p[2] \div g) * q[2])
RNeg(p) == <<-p[1], p[2]>>
RSub(p, q) == RAdd(p, RNeg(q))
RMul(p, q) ==
  LET g1 == Gcd(Abs(p[1]), q[2])
      g2 == Gcd(Abs(q[1]), p[2])
  IN  <<(p[1] \div g1) * (q[1] \div g2), (p[2] \div g2) * (q[2] \div g1)>>
RIsZero(p) == p[1] = 0
RInv(p) == IF p[1] < 0 THEN <<-p[2], -p[1]>> ELSE <<p[2], p[1]>>
RDiv(p, q) == RMul(p, RInv(q))
(* comparisons: the integer parts first, then the fractional parts *)
RFloor(p) == p[1] \div p[2]
RFracLt(p, q) ==
  LET g == Gcd(p[2], q[2])
  IN  (p[1] % p[2]) * (q[2] \div g) < (q[1] % q[2]) * (p[2] \div g)
RLt(p, q) == RFloor(p) < RFloor(q) \/ (RFloor(p) = RFloor(q) /\ RFracLt(p, q))
RLe(p, q) == ~RLt(q, p)
RMin(p, q) == IF RLt(q, p) THEN q ELSE p
RMax(p, q) == IF RLt(p, q) THEN q ELSE p
RHalf(p) == RMul(p, <<1, 2>>)

---------------------------------------------------------------------------
(* Python list indexing: 0-based, negative indices count from the end,     *)
(* anything else raises IndexError.                                        *)

PyOk(s, i) == -Len(s) <= i /\ i < Len(s)
PyAt(s, i) == IF i < 0 THEN s[Len(s) + i + 1] ELSE s[i + 1]
(* s[i:j] for 0 <= i, j clipped to the list as Python clips a slice *)
PySlice(s, i, j) ==
  LET hi == IF j > Len(s) THEN Len(s) ELSE j
  IN  IF i >= hi THEN <<>> ELSE SubSeq(s, i + 1, hi)
(* list.insert(i, e) for i >= 0 *)
PyInsert(s, i, e) ==
  LET k == IF i > Len(s) THEN Len(s) ELSE i
  IN  SubSeq(s, 1, k) \o <<e>> \o SubSeq(s, k + 1, Len(s))

(* index of the first element with the least / greatest x: min(), max()    *)
(* with key=attrgetter("x") followed by list.index                         *)
FirstMinX(P) ==
  CHOOSE i \in 1..Len(P) :
    /\ \A j \in 1..Len(P) : RLe(P[i].x, P[j].x)
    /\ \A j \in 1..(i - 1) : RLt(P[i].x, P[j].x)
FirstMaxX(P) ==
  CHOOSE i \in 1..Len(P) :
    /\ \A j \in 1..Len(P) : RLe(P[j].x, P[i].x)
    /\ \A j \in 1..(i - 1) : RLt(P[j].x, P[i].x)

---------------------------------------------------------------------------
(* airfoil_func.py: the contour sources.  A file is the sequence of its    *)
(* lines that parse as two floats, each a pair <<x, y>> of rationals.      *)

Reverse(s) == [i \in 1..Len(s) |-> s[Len(s) + 1 - i]]

(* the loop body shared by both readers: a line with x > 1 and y > 1 is   *)
(* a point count, not a coordinate                                        *)
accepted_lines(lines) ==
  SelectSeq(lines, LAMBDA l : ~(RLt(RInt(1), l[1]) /\ RLt(RInt(1), l[2])))

(* the combined list returned as it is, repeats included *)
unique_from_none(s, acc) == acc \o s
(* sorted(set(cloud_points), key=cloud_points.index) *)
RECURSIVE unique_from(_, _)
unique_from(s, acc) ==
  IF s = <<>> THEN acc
  ELSE unique_from(Tail(s), IF \A k \in 1..Len(acc) : acc[k] # Head(s)
                            THEN Append(acc, Head(s)) ELSE acc)
unique_in_order(s) == unique_from(s, <<>>)

read_airfoil_from_file(lines) ==
  LET airfoil_points == accepted_lines(lines)
      n == Len(airfoil_points)
      hits == {i \in 1..n : RLe(RInt(1), airfoil_points[i][1])}
      (* 0-based index of the first point with x >= 1.0, else len // 2 *)
      split_index == IF hits = {} THEN n \div 2
                     ELSE (CHOOSE i \in hits : \A j \in hits : i <= j) - 1
      upper_points == PySlice(airfoil_points, 0, split_index + 1)
      lower0 == PySlice(airfoil_points, split_index + 1, n)
      lower_points == IF lower0 # <<>> /\ RIsZero(lower0[1][1])
                      THEN Reverse(lower0) ELSE lower0
  IN  IF n = 0 THEN [err |-> "ValueError", points |-> <<>>]
      ELSE [err |-> "", points |-> unique_in_order(upper_points \o lower_points)]

(* abs(a - b) <= 1e-9 *)
le_tol(d) == d[1] <= d[2] \div 1000000000
within_tol(a, b) == le_tol(<<Abs(RSub(a, b)[1]), RSub(a, b)[2]>>)

same_point(p, q) == within_tol(p[1], q[1]) /\ within_tol(p[2], q[2])

RECURSIVE dedupe_consecutive_from(_, _)
dedupe_consecutive_from(s, out) ==
  IF s = <<>> THEN out
  ELSE dedupe_consecutive_from(Tail(s),
         IF out = <<>> \/ ~same_point(Head(s), out[Len(out)])
         THEN Append(out, Head(s)) ELSE out)
dedupe_consecutive(points) == dedupe_consecutive_from(points, <<>>)

RECURSIVE dedupe_any_from(_, _)
dedupe_any_from(s, out) ==
  IF s = <<>> THEN out
  ELSE dedupe_any_from(Tail(s),
         IF \A k \in 1..Len(out) : ~same_point(Head(s), out[k])
         THEN Append(out, Head(s)) ELSE out)
dedupe_any(points) == dedupe_any_from(points, <<>>)

ensure_le_to_te(points) ==
  IF Len(points) < 2 THEN points
  ELSE IF RLe(points[1][1], points[Len(points)][1]) THEN points ELSE Reverse(points)

(* get_airfoil_points for a name that is not four digits: the database    *)
(* file.  Each stage of the function is an operator on the value the      *)
(* previous stage produced.                                               *)

(* indices (1-based) of the points with abs(x - min_x) <= tol *)
le_indices_of(airfoil_points) ==
  {i \in 1..Len(airfoil_points) :
     \A j \in 1..Len(airfoil_points) :
        le_tol(RSub(airfoil_points[i][1], airfoil_points[j][1]))}

SetMin(S) == CHOOSE i \in S : \A j \in S : i <= j

(* next(i for ... if abs(x - max_x) <= tol), 1-based *)
te_first_of(airfoil_points) ==
  SetMin({i \in 1..Len(airfoil_points) :
            \A j \in 1..Len(airfoil_points) :
               le_tol(RSub(airfoil_points[j][1], airfoil_points[i][1]))})

(* the number of points that go to upper: le_indices[1] when the leading  *)
(* edge repeats, else split_idx + 1 at the first maximum x                *)
upper_count(airfoil_points, le_indices) ==
  IF Cardinality(le_indices) >= 2
  THEN SetMin(le_indices \ {SetMin(le_indices)}) - 1
  ELSE te_first_of(airfoil_points)

build_loop(upper, lower, airfoil_points) ==
  IF upper # <<>> /\ lower # <<>>
  THEN Reverse(upper) \o Tail(lower) ELSE airfoil_points

pop_closing(loop) ==
  IF Len(loop) > 1 /\ same_point(loop[1], loop[Len(loop)])
  THEN SubSeq(loop, 1, Len(loop) - 1) ELSE loop

(* a variant of the last stage without the check of lines 244-245 *)
loop_result_unchecked(loop) == [err |-> "", points |-> loop]

(* lines 244-247 *)
loop_result(loop) ==
  IF Len(loop) < 3 THEN [err |-> "ValueError", points |-> <<>>]
  ELSE [err |-> "", points |-> loop]

split_loop(airfoil_points, k) ==
  loop_result(dedupe_any(pop_closing(
    build_loop(ensure_le_to_te(PySlice(airfoil_points, 0, k)),
               ensure_le_to_te(PySlice(airfoil_points, k, Len(airfoil_points))),
               airfoil_points))))

deduped_points(airfoil_points) ==
  IF Len(airfoil_points) < 3 THEN [err |-> "ValueError", points |-> <<>>]
  ELSE split_loop(airfoil_points,
                  upper_count(airfoil_points, le_indices_of(airfoil_points)))

get_airfoil_points(lines) ==
  IF accepted_lines(lines) = <<>> THEN [err |-> "ValueError", points |-> <<>>]
  ELSE deduped_points(dedupe_consecutive(accepted_lines(lines)))

---------------------------------------------------------------------------
(* gmshairfoil2d.py main(): the reordering of cloud_points.                *)

(* 0-based list.index(p): the first position holding a tuple equal to p *)
PyIndex(s, p) == (CHOOSE i \in 1..Len(s) : s[i] = p /\ \A j \in 1..(i - 1) : s[j] # p) - 1

reorder(cloud_points) ==
  LET n == Len(cloud_points)
      IsLe(i) == \A j \in 1..n : RLe(cloud_points[i][1], cloud_points[j][1])
      (* the loop keeps the last p with p[0] == le *)
      last == CHOOSE i \in 1..n : IsLe(i) /\ \A j \in (i + 1)..n : ~IsLe(j)
      debut == PyIndex(cloud_points, cloud_points[last])
      rotated == PySlice(cloud_points, debut, n) \o PySlice(cloud_points, 0, debut)
      rev == Reverse(rotated)
  IN  IF n = 0 THEN [err |-> "ValueError", points |-> <<>>]
      ELSE IF n < 2 THEN [err |-> "IndexError", points |-> rotated]
      ELSE IF RLt(rotated[2][2], rotated[1][2])
           THEN [err |-> "", points |-> <<rev[n]>> \o SubSeq(rev, 1, n - 1)]
           ELSE [err |-> "", points |-> rotated]

---------------------------------------------------------------------------
(* geometry_def.py: Point and AirfoilSpline.__init__.  A Point is          *)
(* [x, y, tag]; the tag is the one gmsh.model.geo.addPoint returned.       *)

Point(x, y, tag) == [x |-> x, y |-> y, tag |-> tag]

(* the points of the cloud, created in order after `base` earlier points *)
cloud_to_points(point_cloud, base) ==
  [i \in 1..Len(point_cloud) |-> Point(point_cloud[i][1], point_cloud[i][2], base + i)]

TE_TOL == <<1, 10000>>
TE_NEAR == <<1, 1000>>
TE_MAX_AHEAD == <<1, 10>>
TE_FALLBACK == <<1, 20>>
MU_PARALLEL == RInt(10000000)

(* AirfoilSpline.__init__(point_cloud, mesh_size): the object built, or    *)
(* the exception raised; `created` counts the addPoint calls made.  Each   *)
(* stage below is a block of the constructor applied to the object so far. *)

(* lines 616-627: the object before the trailing edge is examined *)
plain_airfoil(P, le_indx, te_indx) ==
  [err |-> "", points |-> P, te |-> PyAt(P, te_indx), te_indx |-> te_indx,
   le |-> PyAt(P, le_indx), le_indx |-> le_indx, created |-> Len(P),
   vertical |-> FALSE, inserted |-> FALSE, splines |-> <<>>]

(* min() and max() of an empty list *)
empty_airfoil ==
  [err |-> "ValueError", points |-> <<>>, te |-> Point(RInt(0), RInt(0), 0),
   te_indx |-> 0, le |-> Point(RInt(0), RInt(0), 0), le_indx |-> 0,
   created |-> 0, vertical |-> FALSE, inserted |-> FALSE, splines |-> <<>>]

(* self.points[i].x > self.te.x - 0.0001 *)
near_te(A, i) == RLt(RSub(A.te.x, TE_TOL), PyAt(A.points, i).x)

(* lines 645-648: (x, y), (z, w) and the two last segments (a, b), (c, d) *)
te_segments(P, te_up_indx, te_down_indx) ==
  [x |-> PyAt(P, te_up_indx).x, y |-> PyAt(P, te_up_indx).y,
   z |-> PyAt(P, te_down_indx).x, w |-> PyAt(P, te_down_indx).y,
   a |-> RSub(PyAt(P, te_up_indx).x, PyAt(P, te_up_indx - 1).x),
   b |-> RSub(PyAt(P, te_up_indx).y, PyAt(P, te_up_indx - 1).y),
   c |-> RSub(PyAt(P, te_down_indx).x, PyAt(P, te_down_indx + 1).x),
   d |-> RSub(PyAt(P, te_down_indx).y, PyAt(P, te_down_indx + 1).y)]

(* lines 665-669 *)
mu_of(g, det) ==
  IF ~RIsZero(det)
  THEN RDiv(RAdd(RMul(g.b, RSub(g.x, g.z)), RMul(g.a, RSub(g.w, g.y))), det)
  ELSE MU_PARALLEL

(* lines 684-687: the constrained point, given e = (a + c) / 2 *)
fallback_point(A, g, e, tag) ==
  Point(RAdd(A.te.x, TE_FALLBACK),
        RAdd(RHalf(RAdd(g.y, g.w)),
             RMul(RDiv(RSub(RAdd(A.te.x, TE_FALLBACK), RHalf(RAdd(g.x, g.z))), e),
                  RHalf(RAdd(g.b, g.d)))),
        tag)

(* a variant of the insertion that leaves self.te and self.te_indx alone *)
insert_te_only(A, te_down_indx, new) ==
  [A EXCEPT !.points = PyInsert(A.points, te_down_indx, new),
            !.created = A.created + 1, !.inserted = TRUE]

(* lines 689-693 *)
insert_te(A, te_down_indx, new) ==
  [A EXCEPT !.points = PyInsert(A.points, te_down_indx, new), !.te = new,
            !.te_indx = te_down_indx, !.created = A.created + 1,
            !.inserted = TRUE]

(* lines 673-687, nx = z + mu*c *)
place_te(A, te_down_indx, g, mu, nx, tag) ==
  IF RLe(nx, RAdd(A.te.x, TE_MAX_AHEAD)) /\ RLt(A.te.x, nx)
  THEN insert_te(A, te_down_indx, Point(nx, RAdd(g.w, RMul(mu, g.d)), tag))
  ELSE IF RLt(RSub(A.te.x, TE_NEAR), nx) /\ RLe(nx, A.te.x)
  THEN A
  ELSE IF RIsZero(RHalf(RAdd(g.a, g.c)))
  THEN [A EXCEPT !.err = "ZeroDivisionError"]
  ELSE insert_te(A, te_down_indx, fallback_point(A, g, RHalf(RAdd(g.a, g.c)), tag))

solve_te(A, te_down_indx, g, mu, tag) ==
  place_te(A, te_down_indx, g, mu, RAdd(g.z, RMul(mu, g.c)), tag)

prolong_te(A, te_down_indx, g, tag) ==
  solve_te(A, te_down_indx, g,
           mu_of(g, RSub(RMul(g.b, g.c), RMul(g.a, g.d))), tag)

(* lines 643-693 with vertical = True *)
vertical_te(A, te_up_indx, te_down_indx, tag) ==
  IF ~PyOk(A.points, te_up_indx - 1) \/ ~PyOk(A.points, te_down_indx + 1)
  THEN [A EXCEPT !.err = "IndexError"]
  ELSE prolong_te(A, te_down_indx,
                  te_segments(A.points, te_up_indx, te_down_indx), tag)

(* lines 630-640: if / elif on the neighbours of the trailing edge *)
check_te(A, tag) ==
  IF near_te(A, A.te_indx - 1)
  THEN vertical_te([A EXCEPT !.vertical = TRUE], A.te_indx - 1, A.te_indx, tag)
  ELSE IF ~PyOk(A.points, A.te_indx + 1)
  THEN [A EXCEPT !.err = "IndexError"]
  ELSE IF near_te(A, A.te_indx + 1)
  THEN vertical_te([A EXCEPT !.vertical = TRUE], A.te_indx, A.te_indx + 1, tag)
  ELSE A

airfoil_from_points(P, base) ==
  IF Len(P) = 0 THEN empty_airfoil
  ELSE check_te(plain_airfoil(P, FirstMinX(P) - 1, FirstMaxX(P) - 1),
                base + Len(P) + 1)

AirfoilSpline(point_cloud, base) ==
  airfoil_from_points(cloud_to_points(point_cloud, base), base)

---------------------------------------------------------------------------
(* geometry_def.py: CType.__init__, the split of the contour and the       *)
(* eight outer points.                                                     *)

SPLIT_X == <<41, 1000>>
CLAMP_FAR == <<7, 2>>
CLAMP_NEAR == <<1, 20>>

(* the scan `for p in airfoil_spline.points` that binds k1 and k2; a name  *)
(* left unbound shows as -1 (its first use raises UnboundLocalError)       *)
scan_k1(P, threshold) ==
  LET hits == {i \in 1..Len(P) : RLt(threshold, P[i].x)}
  IN  IF hits = {} THEN -1 ELSE (CHOOSE i \in hits : \A j \in hits : i <= j) - 1
(* a variant of the scan that binds k2 to the index of the point that ends *)
(* it, without the - 1                                                     *)
scan_k2_at_break(P, threshold) ==
  LET hits == {j \in 1..Len(P) : j - 1 > scan_k1(P, threshold) /\ RLe(P[j].x, threshold)}
  IN  IF scan_k1(P, threshold) = -1 \/ hits = {} THEN -1
      ELSE (CHOOSE j \in hits : \A i \in hits : j <= i) - 1
scan_k2(P, threshold) ==
  LET k1 == scan_k1(P, threshold)
      hits == {j \in 1..Len(P) : j - 1 > k1 /\ RLe(P[j].x, threshold)}
  IN  IF k1 = -1 \/ hits = {} THEN -1
      ELSE (CHOOSE j \in hits : \A i \in hits : j <= i) - 1 - 1

(* the rotation "by hand" of a vector by aoa = [cos, sin] *)
rotate_x(aoa, vx, vy) == RSub(RMul(aoa.cos, vx), RMul(aoa.sin, vy))
rotate_y(aoa, vx, vy) == RAdd(RMul(aoa.sin, vx), RMul(aoa.cos, vy))

(* the clamp without its upstream limit *)
clamp_pt_near_only(ptx, le_x, dy) == RMin(ptx, RSub(le_x, RMul(CLAMP_NEAR, dy)))
clamp_pt(ptx, le_x, dy) ==
  RMax(RMin(ptx, RSub(le_x, RMul(CLAMP_NEAR, dy))), RSub(le_x, CLAMP_FAR))

(* lines 934-959: the inlet points 1 and 7 and the centre of the arc *)
outer_geometry(P, k1, k2, le, dy, aoa) ==
  LET pk1 == PyAt(P, k1)
      pk2 == PyAt(P, k2)
      upbefore == PyAt(P, k1 - 1)
      upafter == PyAt(P, k1 + 1)
      downbefore == PyAt(P, k2 - 1)
      downafter == PyAt(P, k2 + 1)
      dux0 == RSub(upbefore.y, upafter.y)
      duy0 == RSub(upafter.x, upbefore.x)
      ddx0 == RSub(downafter.y, downbefore.y)
      ddy0 == RSub(downbefore.x, downafter.x)
      directionupx == rotate_x(aoa, dux0, duy0)
      directionupy == rotate_y(aoa, dux0, duy0)
      directiondownx == rotate_x(aoa, ddx0, ddy0)
      directiondowny == rotate_y(aoa, ddx0, ddy0)
      xup == rotate_x(aoa, pk1.x, pk1.y)
      yup == rotate_y(aoa, pk1.x, pk1.y)
      xdown == rotate_x(aoa, pk2.x, pk2.y)
      ydown == rotate_y(aoa, pk2.x, pk2.y)
      pt1y == RHalf(dy)
      pt7y == RNeg(RHalf(dy))
      raw1 == RAdd(xup, RMul(RDiv(RSub(RHalf(dy), yup), directionupy), directionupx))
      raw7 == RAdd(xdown, RMul(RDiv(RSub(RSub(RInt(0), RHalf(dy)), ydown), directiondowny),
                               directiondownx))
      pt1x == clamp_pt(raw1, le.x, dy)
      pt7x == clamp_pt(raw7, le.x, dy)
      none == [err |-> "", pt1x |-> RInt(0), pt1y |-> pt1y, pt7x |-> RInt(0), pt7y |-> pt7y]
  IN  IF ~PyOk(P, k1 + 1) \/ ~PyOk(P, k2 + 1) THEN [none EXCEPT !.err = "IndexError"]
      ELSE IF RIsZero(directionupy) \/ RIsZero(directiondowny)
           THEN [none EXCEPT !.err = "ZeroDivisionError"]
      ELSE IF RIsZero(RSub(pt1y, pt7y))
           THEN [none EXCEPT !.err = "ZeroDivisionError", !.pt1x = pt1x, !.pt7x = pt7x]
      ELSE [none EXCEPT !.pt1x = pt1x, !.pt7x = pt7x]

(* the centre taken level with the middle of points 1 and 7 *)
centery_of_middle(pt1x, pt1y, pt7x, pt7y) == RHalf(RAdd(pt1y, pt7y))

(* line 959: the y of the centre of the inlet arc, Point(0.5, centery) *)
centery_of(pt1x, pt1y, pt7x, pt7y) ==
  RAdd(RHalf(RAdd(pt1y, pt7y)),
       RMul(RDiv(RSub(<<1, 2>>, RHalf(RAdd(pt1x, pt7x))), RSub(pt1y, pt7y)),
            RSub(pt7x, pt1x)))

---------------------------------------------------------------------------
(* geometry_def.py: CType.__init__, the node counts (lines 1015-1058).     *)

(* int(math.log(V) / math.log(r)) for r > 1 and V >= 1: the greatest k     *)
(* with r^k <= V.  r^k is carried as an interval [lo, hi] / scale; the     *)
(* answer is UNDECIDED when V falls inside the interval.                   *)
UNDECIDED == -1
(* <<(a * p) \div q, (a * p) % q>> for a, p >= 0 and q > 0, by halving p so  *)
(* that no intermediate product leaves the machine integers of the checker *)
mul_join(h, r2, a, odd, q) ==
  <<2 * h[1] + (IF odd THEN a \div q ELSE 0) + r2 \div q, r2 % q>>
mul_half(h, a, odd, q) == mul_join(h, 2 * h[2] + (IF odd THEN a % q ELSE 0), a, odd, q)
RECURSIVE mul_divmod(_, _, _)
mul_divmod(a, p, q) ==
  IF p = 0 THEN <<0, 0>> ELSE mul_half(mul_divmod(a, p \div 2, q), a, p % 2 = 1, q)
ceil_of(m) == m[1] + (IF m[2] > 0 THEN 1 ELSE 0)
(* the same pair, computed directly when the products are small *)
SMALL_FACTOR == 30000
times_ratio(a, p, q) ==
  IF p < SMALL_FACTOR /\ q < SMALL_FACTOR
  THEN <<(a \div q) * p + ((a % q) * p) \div q, ((a % q) * p) % q>>
  ELSE mul_divmod(a, p, q)

(* one multiplication by r = p/q; s = <<lo, hi, k, state>> with state 0     *)
(* while r^(k+1) may still be <= V, 1 when k is the answer, 2 when undecided *)
log_decide(s, lo2, hi2, v) ==
  IF lo2 > v THEN <<s[1], s[2], s[3], 1>>
  ELSE IF hi2 <= v THEN <<lo2, hi2, s[3] + 1, 0>>
  ELSE <<s[1], s[2], s[3], 2>>
log_step(s, p, q, v) ==
  IF s[4] # 0 THEN s
  ELSE log_decide(s, times_ratio(s[1], p, q)[1], ceil_of(times_ratio(s[2], p, q)), v)
log_step4(s, p, q, v) == log_step(log_step(log_step(log_step(s, p, q, v), p, q, v), p, q, v), p, q, v)
log_step16(s, p, q, v) ==
  log_step4(log_step4(log_step4(log_step4(s, p, q, v), p, q, v), p, q, v), p, q, v)
RECURSIVE log_steps(_, _, _, _)
log_steps(s, p, q, v) ==
  LET s2 == log_step16(s, p, q, v)
  IN  IF s2[4] = 0 THEN log_steps(s2, p, q, v)
      ELSE IF s2[4] = 1 THEN s2[3]
      ELSE UNDECIDED
int_log(V, r, scale) == log_steps(<<scale, scale, 0, 0>>, r[1], r[2], (V[1] * scale) \div V[2])

LOG_SCALE_Y == 10000
LOG_SCALE_WAKE == 1000000
LOG_SCALE_AIRFOIL == 1000000
WAKE_RATIO == <<41, 40>>
WAKE_STEP == <<1, 40>>

(* line 1019 without the three nodes it adds to the layer count *)
nb_points_y_of_layers(dy, height, ratio) ==
  LET V == RAdd(RInt(1), RMul(RDiv(RHalf(dy), height), RSub(ratio, RInt(1))))
      k == int_log(V, ratio, LOG_SCALE_Y)
  IN  IF RIsZero(height) \/ ratio = RInt(1) THEN [err |-> "ZeroDivisionError", n |-> 0]
      ELSE IF k = UNDECIDED THEN [err |-> "Undecided", n |-> 0]
      ELSE [err |-> "", n |-> k]

(* line 1019; ratio >= 1 and height >= 0 in this model *)
nb_points_y_of(dy, height, ratio) ==
  LET V == RAdd(RInt(1), RMul(RDiv(RHalf(dy), height), RSub(ratio, RInt(1))))
      k == int_log(V, ratio, LOG_SCALE_Y)
  IN  IF RIsZero(height) \/ ratio = RInt(1) THEN [err |-> "ZeroDivisionError", n |-> 0]
      ELSE IF k = UNDECIDED THEN [err |-> "Undecided", n |-> 0]
      ELSE [err |-> "", n |-> 3 + k]

(* lines 1029-1030 *)
nb_points_wake_of(dx_trail, mesh_size_end) ==
  LET V == RAdd(RInt(1), RDiv(RMul(dx_trail, WAKE_STEP), mesh_size_end))
      k == int_log(V, WAKE_RATIO, LOG_SCALE_WAKE)
  IN  IF RIsZero(mesh_size_end) THEN [err |-> "ZeroDivisionError", n |-> 0]
      ELSE IF k = UNDECIDED THEN [err |-> "Undecided", n |-> 0]
      ELSE [err |-> "", n |-> k + 1]

(* lines 1034-1039 *)
coeffdiv_of(mesh_size_end) ==
  IF RLt(<<1, 20>>, mesh_size_end) THEN 4
  ELSE IF RLe(<<3, 100>>, mesh_size_end) THEN 3
  ELSE 2

(* the series with ratio_airfoil taken as (l - b)/(l - a) *)
airfoil_series_inverse(mesh_size_end, te_x) ==
  LET coeffdiv == coeffdiv_of(mesh_size_end)
      a == RDiv(mesh_size_end, RInt(coeffdiv))
      b == mesh_size_end
      l == te_x
      ratio_airfoil == RDiv(RSub(l, a), RSub(l, b))
      k == int_log(RInt(coeffdiv), ratio_airfoil, LOG_SCALE_AIRFOIL)
  IN  IF RIsZero(RSub(l, b))
      THEN [err |-> "ZeroDivisionError", ratio_airfoil |-> RInt(0), nb_airfoil |-> 0]
      ELSE IF RLt(RSub(l, b), RInt(0))
      THEN [err |-> "", ratio_airfoil |-> RInv(ratio_airfoil), nb_airfoil |-> 3]
      ELSE IF k = UNDECIDED
      THEN [err |-> "Undecided", ratio_airfoil |-> ratio_airfoil, nb_airfoil |-> 0]
      ELSE [err |-> "", ratio_airfoil |-> RInv(ratio_airfoil),
            nb_airfoil |-> IF k + 2 > 3 THEN k + 2 ELSE 3]

(* lines 1040-1046: ratio_airfoil and nb_airfoil *)
airfoil_series(mesh_size_end, te_x) ==
  LET coeffdiv == coeffdiv_of(mesh_size_end)
      a == RDiv(mesh_size_end, RInt(coeffdiv))
      b == mesh_size_end
      l == te_x
      ratio_airfoil == RDiv(RSub(l, a), RSub(l, b))
      k == int_log(RInt(coeffdiv), ratio_airfoil, LOG_SCALE_AIRFOIL)
  IN  IF RIsZero(RSub(l, b))
      THEN [err |-> "ZeroDivisionError", ratio_airfoil |-> RInt(0), nb_airfoil |-> 0]
      ELSE IF RLt(RSub(l, b), RInt(0))
      THEN [err |-> "", ratio_airfoil |-> ratio_airfoil, nb_airfoil |-> 3]
      ELSE IF k = UNDECIDED
      THEN [err |-> "Undecided", ratio_airfoil |-> ratio_airfoil, nb_airfoil |-> 0]
      ELSE [err |-> "", ratio_airfoil |-> ratio_airfoil,
            nb_airfoil |-> IF k + 2 > 3 THEN k + 2 ELSE 3]

(* int((2 * sqrt(Q) + 0.01) * K): the greatest n with n/K - 0.01 <= 2*sqrt(Q), *)
(* compared in squares and found by doubling and bisection                  *)
front_ok(Q4, K, n) ==
  LET t == RSub(RDiv(RInt(n), K), <<1, 100>>)
  IN  RLe(t, RInt(0)) \/ RLe(RMul(t, t), Q4)
RECURSIVE front_above(_, _, _)
front_above(Q4, K, hi) == IF front_ok(Q4, K, hi) THEN front_above(Q4, K, 2 * hi) ELSE hi
RECURSIVE front_bisect(_, _, _, _)
front_bisect(Q4, K, lo, hi) ==
  LET mid == (lo + hi) \div 2
  IN  IF hi - lo <= 1 THEN lo
      ELSE IF front_ok(Q4, K, mid) THEN front_bisect(Q4, K, mid, hi)
      ELSE front_bisect(Q4, K, lo, mid)
front_steps(Q4, K) == front_bisect(Q4, K, 0, front_above(Q4, K, 1))

(* lines 1051-1058: x, y and v, w both pair points[k1].x with points[k2].y *)
nb_airfoil_front_of(pk1, pk2, le, mesh_size_end) ==
  LET coeffdiv == coeffdiv_of(mesh_size_end)
      x == pk1.x
      y == pk2.y
      v == pk1.x
      w == pk2.y
      c1 == le.x
      c2 == le.y
      (* both square roots have the same argument *)
      Q == RAdd(RMul(RSub(x, c1), RSub(x, c1)), RMul(RSub(y, c2), RSub(y, c2)))
      K == RMul(RDiv(RInt(1), mesh_size_end), RInt(coeffdiv * 3))
      n == front_steps(RMul(RInt(4), Q), K)
  IN  (IF n > 4 THEN n ELSE 4) + 4

---------------------------------------------------------------------------
(* The gmsh session: a record of what has been asked of the kernel.        *)
(* npts counts addPoint calls (the n-th returns tag n); curves[t] is the   *)
(* curve with tag t, as the tags of its points from start to end (an arc:  *)
(* start, centre, end); loops[t] is curve loop t, a list of signed curve   *)
(* tags; tcalls lists the setTransfiniteCurve calls in order.              *)

NoKernel ==
  [init |-> 0, fin |-> 0, npts |-> 0, curves |-> <<>>, tcalls |-> <<>>, loops |-> <<>>,
   surfs |-> <<>>, tsurfs |-> {}, recombined |-> {}, groups |-> <<>>, rotations |-> 0,
   fields |-> 0, generated |-> 0, written |-> 0, outside |-> FALSE]

(* a call into the kernel is made outside the session unless exactly one   *)
(* gmsh.initialize and no gmsh.finalize came before it                     *)
InSession(k) == k.init = 1 /\ k.fin = 0
Called(k) == [k EXCEPT !.outside = @ \/ ~InSession(k)]

Coef(v) == [v |-> v, sqrt |-> FALSE]
SqrtCoef(v) == [v |-> v, sqrt |-> TRUE]
TCall(curve, n, law, coef) == [curve |-> curve, n |-> n, law |-> law, coef |-> coef, err |-> ""]
TFail(e) == [curve |-> 0, n |-> 0, law |-> "", coef |-> Coef(RInt(0)), err |-> e]

BUMP_FINE == RInt(12)
BUMP_COARSE == RInt(7)
L1_FAR == <<3, 2>>
L1_MID == <<7, 10>>
L6_FAR == <<3, 2>>
L6_MID == <<2, 5>>

(* lines 1074-1078 *)
circle_coef(pt1x, pt7x, dy) ==
  LET c0 == RAdd(RMul(<<8, 3>>, RHalf(RAdd(pt1x, pt7x))), <<31, 3>>)
      c1 == IF RLt(dy, RInt(6)) THEN RDiv(RAdd(c0, RInt(2)), RInt(3)) ELSE c0
  IN  IF RLe(dy, RInt(3)) THEN RDiv(RAdd(c1, RInt(2)), RInt(3)) ELSE c1

(* lines 1087-1096: the call for L1 *)
transfinite_L1(tag, pt1x, le_x, nb_airfoil, ratio_airfoil) ==
  IF RLt(pt1x, RSub(le_x, L1_FAR))
  THEN IF RIsZero(ratio_airfoil) THEN TFail("ZeroDivisionError")
       ELSE TCall(tag, nb_airfoil, "Progression", Coef(RInv(ratio_airfoil)))
  ELSE IF RLt(pt1x, RSub(le_x, L1_MID))
  THEN IF RLt(ratio_airfoil, RInt(0)) THEN TFail("ValueError")
       ELSE IF RIsZero(ratio_airfoil) THEN TFail("ZeroDivisionError")
       ELSE TCall(tag, nb_airfoil, "Progression", SqrtCoef(RInv(ratio_airfoil)))
  ELSE TCall(tag, nb_airfoil, "Progression", Coef(RInt(1)))

(* a variant of the call for L6 that leaves out the node at the far end *)
transfinite_L6_short(tag, pt7x, le_x, nb_airfoil, ratio_airfoil) ==
  IF RLt(pt7x, RSub(le_x, L6_FAR))
  THEN TCall(tag, nb_airfoil - 1, "Progression", Coef(ratio_airfoil))
  ELSE IF RLt(pt7x, RSub(le_x, L6_MID))
  THEN IF RLt(ratio_airfoil, RInt(0)) THEN TFail("ValueError")
       ELSE TCall(tag, nb_airfoil - 1, "Progression", SqrtCoef(ratio_airfoil))
  ELSE TCall(tag, nb_airfoil - 1, "Progression", Coef(RInt(1)))

(* lines 1117-1126: the call for L6 *)
transfinite_L6(tag, pt7x, le_x, nb_airfoil, ratio_airfoil) ==
  IF RLt(pt7x, RSub(le_x, L6_FAR))
  THEN TCall(tag, nb_airfoil, "Progression", Coef(ratio_airfoil))
  ELSE IF RLt(pt7x, RSub(le_x, L6_MID))
  THEN IF RLt(ratio_airfoil, RInt(0)) THEN TFail("ValueError")
       ELSE TCall(tag, nb_airfoil, "Progression", SqrtCoef(ratio_airfoil))
  ELSE TCall(tag, nb_airfoil, "Progression", Coef(RInt(1)))

(* the tags the kernel gives the curves CType creates after c0 earlier     *)
(* curves: the two back splines (gen_skin_struct), the front spline, the   *)
(* lines L0-L10 and the circle arc                                         *)
curve_tags(c0) ==
  [upper_spline_back |-> c0 + 1, lower_spline_back |-> c0 + 2, spline_front |-> c0 + 3,
   lines |-> [i \in 1..11 |-> c0 + 3 + i], circle_arc |-> c0 + 15]
LineTag(t, i) == t.lines[i + 1]

(* a variant of the calls in which the call for L9 is made on L8 instead *)
transfinite_calls_L9_on_L8(t, g, le_x, dy, ratio, mesh_size_end, nb_points_y, nb_points_wake, nb_airfoil, nb_airfoil_front, ratio_airfoil) ==
  << TCall(LineTag(t, 7), nb_points_y, "Progression", Coef(RInv(ratio))),
     TCall(t.spline_front, nb_airfoil_front, "Bump", Coef(BUMP_FINE)),
     TCall(LineTag(t, 0), nb_points_y, "Progression", Coef(ratio)),
     TCall(t.circle_arc, nb_airfoil_front, "Bump", Coef(RInt(1))),
     TCall(LineTag(t, 8), nb_points_y, "Progression", Coef(ratio)),
     TCall(t.upper_spline_back, nb_airfoil, "Progression", Coef(ratio_airfoil)),
     transfinite_L1(LineTag(t, 1), g.pt1x, le_x, nb_airfoil, ratio_airfoil),
     TCall(LineTag(t, 2), nb_points_wake, "Progression", Coef(WAKE_RATIO)),
     TCall(LineTag(t, 3), nb_points_y, "Progression", Coef(RInv(ratio))),
     TCall(LineTag(t, 10), nb_points_wake, "Progression", Coef(RInv(WAKE_RATIO))),
     TCall(LineTag(t, 8), nb_points_y, "Progression", Coef(ratio)),
     TCall(LineTag(t, 4), nb_points_y, "Progression", Coef(ratio)),
     TCall(LineTag(t, 5), nb_points_wake, "Progression", Coef(RInv(WAKE_RATIO))),
     TCall(t.lower_spline_back, nb_airfoil, "Progression", Coef(ratio_airfoil)),
     transfinite_L6(LineTag(t, 6), g.pt7x, le_x, nb_airfoil, ratio_airfoil) >>

(* lines 1060-1126: the fifteen calls in program order *)
transfinite_calls(t, g, le_x, dy, ratio, mesh_size_end, nb_points_y, nb_points_wake, nb_airfoil, nb_airfoil_front, ratio_airfoil) ==
  LET progression_y == ratio
      progression_y_inv == RInv(ratio)
      progression_wake == RInv(WAKE_RATIO)
      progression_wake_inv == WAKE_RATIO
      coef == circle_coef(g.pt1x, g.pt7x, dy)
  IN  << TCall(LineTag(t, 7), nb_points_y, "Progression", Coef(progression_y_inv)),
         IF RLt(mesh_size_end, <<1, 25>>)
         THEN TCall(t.spline_front, nb_airfoil_front, "Bump", Coef(BUMP_FINE))
         ELSE TCall(t.spline_front, nb_airfoil_front, "Bump", Coef(BUMP_COARSE)),
         TCall(LineTag(t, 0), nb_points_y, "Progression", Coef(progression_y)),
         IF RIsZero(coef) THEN TFail("ZeroDivisionError")
         ELSE TCall(t.circle_arc, nb_airfoil_front, "Bump", Coef(RInv(coef))),
         TCall(LineTag(t, 8), nb_points_y, "Progression", Coef(progression_y)),
         TCall(t.upper_spline_back, nb_airfoil, "Progression", Coef(ratio_airfoil)),
         transfinite_L1(LineTag(t, 1), g.pt1x, le_x, nb_airfoil, ratio_airfoil),
         TCall(LineTag(t, 2), nb_points_wake, "Progression", Coef(progression_wake_inv)),
         TCall(LineTag(t, 3), nb_points_y, "Progression", Coef(progression_y_inv)),
         TCall(LineTag(t, 10), nb_points_wake, "Progression", Coef(progression_wake)),
         TCall(LineTag(t, 9), nb_points_y, "Progression", Coef(progression_y)),
         TCall(LineTag(t, 4), nb_points_y, "Progression", Coef(progression_y)),
         TCall(LineTag(t, 5), nb_points_wake, "Progression", Coef(progression_wake)),
         IF RIsZero(ratio_airfoil) THEN TFail("ZeroDivisionError")
         ELSE TCall(t.lower_spline_back, nb_airfoil, "Progression", Coef(RInv(ratio_airfoil))),
         transfinite_L6(LineTag(t, 6), g.pt7x, le_x, nb_airfoil, ratio_airfoil) >>

(* the calls made before the first one whose arguments raise *)
FirstFailure(calls) ==
  LET bad == {i \in 1..Len(calls) : calls[i].err # ""}
  IN  IF bad = {} THEN 0 ELSE CHOOSE i \in bad : \A j \in bad : i <= j
CallsMade(calls) ==
  IF FirstFailure(calls) = 0 THEN calls ELSE SubSeq(calls, 1, FirstFailure(calls) - 1)

(* lines 1131-1156: the five curve loops A-E *)
curve_loops(t) ==
  << <<LineTag(t, 7), t.spline_front, LineTag(t, 0), -t.circle_arc>>,
     <<LineTag(t, 0), LineTag(t, 1), -LineTag(t, 8), -t.upper_spline_back>>,
     <<LineTag(t, 8), LineTag(t, 2), LineTag(t, 3), LineTag(t, 10)>>,
     <<-LineTag(t, 9), -LineTag(t, 10), LineTag(t, 4), LineTag(t, 5)>>,
     <<LineTag(t, 7), -t.lower_spline_back, LineTag(t, 9), LineTag(t, 6)>> >>

(* a variant of the lines in which L8 runs from outer point 2 to the       *)
(* trailing edge instead of from the trailing edge to outer point 2        *)
ctype_lines_L8_reversed(le_upper, le_lower, te, o) ==
  << <<le_upper, o[2]>>, <<o[2], o[3]>>, <<o[3], o[4]>>, <<o[4], o[5]>>, <<o[5], o[6]>>,
     <<o[6], o[7]>>, <<o[7], o[8]>>, <<o[8], le_lower>>, <<o[3], te>>, <<te, o[7]>>,
     <<o[5], te>> >>

(* the lines with L3 drawn from point 4 to point 3 *)
ctype_lines_L3_reversed(le_upper, le_lower, te, o) ==
  << <<le_upper, o[2]>>, <<o[2], o[3]>>, <<o[3], o[4]>>, <<o[5], o[4]>>, <<o[5], o[6]>>,
     <<o[6], o[7]>>, <<o[7], o[8]>>, <<o[8], le_lower>>, <<te, o[3]>>, <<te, o[7]>>,
     <<o[5], te>> >>

(* the lines with L10 drawn from the trailing edge to point 4 *)
ctype_lines_L10_reversed(le_upper, le_lower, te, o) ==
  << <<le_upper, o[2]>>, <<o[2], o[3]>>, <<o[3], o[4]>>, <<o[4], o[5]>>, <<o[5], o[6]>>,
     <<o[6], o[7]>>, <<o[7], o[8]>>, <<o[8], le_lower>>, <<te, o[3]>>, <<te, o[7]>>,
     <<te, o[5]>> >>

(* lines 962-976: the x of the eight outer points, point j at place j + 1 *)
outer_points_x(te_x, dx_trail, pt1x, pt7x) ==
  << <<1, 2>>, pt1x, te_x, RAdd(te_x, dx_trail), RAdd(te_x, dx_trail), RAdd(te_x, dx_trail),
     te_x, pt7x >>

(* lines 979-995: lines[i] as <<start tag, end tag>>, then the arc; o(j)   *)
(* is the tag of outer point j                                             *)
ctype_lines(le_upper, le_lower, te, o) ==
  << <<le_upper, o[2]>>, <<o[2], o[3]>>, <<o[3], o[4]>>, <<o[4], o[5]>>, <<o[5], o[6]>>,
     <<o[6], o[7]>>, <<o[7], o[8]>>, <<o[8], le_lower>>, <<te, o[3]>>, <<te, o[7]>>,
     <<o[5], te>> >>
ctype_arc(o) == <<o[8], o[1], o[2]>>

---------------------------------------------------------------------------
(* geometry_def.py: CType.__init__ as a whole.                             *)

Tags(points) == [i \in 1..Len(points) |-> points[i].tag]

NoCType ==
  [built |-> FALSE, k1 |-> -1, k2 |-> -1, tags |-> curve_tags(0), outer |-> <<>>,
   pt1x |-> RInt(0), pt1y |-> RInt(0), pt7x |-> RInt(0), pt7y |-> RInt(0),
   centery |-> RInt(0), dy |-> RInt(0),
   nb_points_y |-> 0, nb_points_wake |-> 0, nb_airfoil |-> 0, nb_airfoil_front |-> 0,
   ratio_airfoil |-> RInt(0), curveloops |-> <<>>, surfaces |-> <<>>]

(* gmsh.model.geo.addSpline: the kernel refuses fewer than two points *)
SplineOk(tags) == Len(tags) >= 2

(* the result of CType(airfoil_spline, dx_trail, dy, mesh_size, height,    *)
(* ratio, aoa) run against kernel k: the exception raised (if any), the    *)
(* kernel as the calls made so far leave it, and the object.  The          *)
(* constructor is a chain of stages; c holds its arguments with k1, k2 and *)
(* the curve tags t, kk is the kernel so far and obj the object so far.    *)
CTypeResult(e, kk, obj) == [err |-> e, kern |-> kk, obj |-> obj]

Offsets(base, n) == [i \in 1..n |-> base + i]

(* lines 1131-1167: the curve loops, the surfaces, their transfinite and   *)
(* recombine settings                                                      *)
ctype_surfaces(c, kk, obj) ==
  CTypeResult("",
    [kk EXCEPT !.loops = @ \o curve_loops(c.t),
               !.surfs = @ \o [i \in 1..5 |-> <<Len(kk.loops) + i>>],
               !.tsurfs = @ \cup {Len(kk.surfs) + i : i \in 1..5},
               !.recombined = @ \cup {Len(kk.surfs) + i : i \in 1..5}],
    [obj EXCEPT !.built = TRUE, !.curveloops = Offsets(Len(kk.loops), 5),
                !.surfaces = Offsets(Len(kk.surfs), 5)])

(* lines 1060-1126 *)
ctype_transfinite(c, kk, obj, calls) ==
  IF FirstFailure(calls) # 0
  THEN CTypeResult(calls[FirstFailure(calls)].err,
                   [kk EXCEPT !.tcalls = @ \o CallsMade(calls)], obj)
  ELSE ctype_surfaces(c, [kk EXCEPT !.tcalls = @ \o calls], obj)

(* lines 1015-1058 *)
ctype_counts(c, kk, obj, ny, nw, sa, nf) ==
  IF ny.err # "" THEN CTypeResult(ny.err, kk, obj)
  ELSE IF nw.err # "" THEN CTypeResult(nw.err, kk, obj)
  ELSE IF sa.err # "" THEN CTypeResult(sa.err, kk, obj)
  ELSE ctype_transfinite(c, kk,
         [obj EXCEPT !.nb_points_y = ny.n, !.nb_points_wake = nw.n,
                     !.nb_airfoil = sa.nb_airfoil, !.nb_airfoil_front = nf,
                     !.ratio_airfoil = sa.ratio_airfoil],
         transfinite_calls(c.t, obj, c.airfoil_spline.le.x, c.dy, c.ratio,
                           c.mesh_size_end, ny.n, nw.n, sa.nb_airfoil, nf,
                           sa.ratio_airfoil))

(* lines 934-995: the eight points with tags o, the lines and the arc *)
ctype_outer(c, kk, obj, g, o) ==
  IF g.err # "" THEN CTypeResult(g.err, kk, obj)
  ELSE ctype_counts(c,
         [kk EXCEPT !.npts = @ + 8,
                    !.curves = @ \o ctype_lines(PyAt(c.airfoil_spline.points, c.k1).tag,
                                                PyAt(c.airfoil_spline.points, c.k2).tag,
                                                c.airfoil_spline.te.tag, o)
                                 \o <<ctype_arc(o)>>],
         [obj EXCEPT !.pt1x = g.pt1x, !.pt1y = g.pt1y, !.pt7x = g.pt7x,
                     !.pt7y = g.pt7y, !.outer = o],
         nb_points_y_of(c.dy, c.height, c.ratio),
         nb_points_wake_of(c.dx_trail, c.mesh_size_end),
         airfoil_series(c.mesh_size_end, c.airfoil_spline.te.x),
         nb_airfoil_front_of(PyAt(c.airfoil_spline.points, c.k1),
                             PyAt(c.airfoil_spline.points, c.k2),
                             c.airfoil_spline.le, c.mesh_size_end))

(* lines 904-915: gen_skin_struct, then the front spline *)
ctype_splines(c, k, obj, upper, lower, front) ==
  IF ~SplineOk(upper) THEN CTypeResult("KernelError", Called(k), obj)
  ELSE IF ~SplineOk(lower)
  THEN CTypeResult("KernelError", [Called(k) EXCEPT !.curves = Append(@, upper)], obj)
  ELSE IF ~SplineOk(front)
  THEN CTypeResult("KernelError",
                   [Called(k) EXCEPT !.curves = Append(Append(@, upper), lower)], obj)
  ELSE ctype_outer(c,
         [Called(k) EXCEPT !.curves = Append(Append(Append(@, upper), lower), front)],
         obj,
         outer_geometry(c.airfoil_spline.points, c.k1, c.k2, c.airfoil_spline.le,
                        c.dy, c.aoa),
         Offsets(k.npts, 8))

ctype_split(c, k) ==
  IF c.k1 = -1 \/ c.k2 = -1 THEN CTypeResult("UnboundLocalError", k, NoCType)
  ELSE ctype_splines(c, k,
         [NoCType EXCEPT !.k1 = c.k1, !.k2 = c.k2, !.tags = c.t, !.dy = c.dy],
         Tags(PySlice(c.airfoil_spline.points, c.k1, c.airfoil_spline.te_indx + 1)),
         Tags(PySlice(c.airfoil_spline.points, c.airfoil_spline.te_indx, c.k2 + 1)),
         Tags(PySlice(c.airfoil_spline.points, c.k2, Len(c.airfoil_spline.points))
              \o PySlice(c.airfoil_spline.points, 0, c.k1 + 1)))

CType(airfoil_spline, dx_trail, dy, mesh_size, height, ratio, aoa, k) ==
  ctype_split([airfoil_spline |-> airfoil_spline, dx_trail |-> dx_trail, dy |-> dy,
               mesh_size_end |-> RMul(mesh_size, RInt(2)), height |-> height,
               ratio |-> ratio, aoa |-> aoa,
               k1 |-> scan_k1(airfoil_spline.points, SPLIT_X),
               k2 |-> scan_k2(airfoil_spline.points, SPLIT_X),
               t |-> curve_tags(Len(k.curves))], k)

(* a variant of define_bc whose "farfield" group takes L7 in place of L6 *)
ctype_define_bc_L7(obj, k) ==
  [Called(k) EXCEPT !.groups = @ \o
     << [dim |-> 1, name |-> "airfoil",
         tags |-> <<obj.tags.upper_spline_back, obj.tags.lower_spline_back,
                    obj.tags.spline_front>>],
        [dim |-> 1, name |-> "farfield",
         tags |-> <<LineTag(obj.tags, 1), LineTag(obj.tags, 2), LineTag(obj.tags, 3),
                    LineTag(obj.tags, 4), LineTag(obj.tags, 5), LineTag(obj.tags, 7),
                    obj.tags.circle_arc>>],
        [dim |-> 2, name |-> "fluid", tags |-> obj.surfaces] >>]

(* lines 1169-1189: CType.define_bc *)
ctype_define_bc(obj, k) ==
  [Called(k) EXCEPT !.groups = @ \o
     << [dim |-> 1, name |-> "airfoil",
         tags |-> <<obj.tags.upper_spline_back, obj.tags.lower_spline_back,
                    obj.tags.spline_front>>],
        [dim |-> 1, name |-> "farfield",
         tags |-> <<LineTag(obj.tags, 1), LineTag(obj.tags, 2), LineTag(obj.tags, 3),
                    LineTag(obj.tags, 4), LineTag(obj.tags, 5), LineTag(obj.tags, 6),
                    obj.tags.circle_arc>>],
        [dim |-> 2, name |-> "fluid", tags |-> obj.surfaces] >>]

---------------------------------------------------------------------------
(* geometry_def.py: the unstructured path (gen_skin, outofbounds, Circle,  *)
(* Rectangle, PlaneSurface).                                               *)

SKIN_X == <<49, 1000>>

(* AirfoilSpline.gen_skin: the three splines, or the exception *)
gen_skin(airfoil, k) ==
  LET P == airfoil.points
      k1 == scan_k1(P, SKIN_X)
      k2 == scan_k2(P, SKIN_X)
      upper == Tags(PySlice(P, k1, airfoil.te_indx + 1))
      lower == Tags(PySlice(P, airfoil.te_indx, k2 + 1))
      front == Tags(PySlice(P, k2, Len(P)) \o PySlice(P, 0, k1 + 1))
      kU == [Called(k) EXCEPT !.curves = Append(@, upper)]
      kL == [kU EXCEPT !.curves = Append(@, lower)]
      kF == [kL EXCEPT !.curves = Append(@, front)]
  IN  IF k1 = -1 \/ k2 = -1 THEN [err |-> "UnboundLocalError", kern |-> k]
      ELSE IF ~SplineOk(upper) THEN [err |-> "KernelError", kern |-> Called(k)]
      ELSE IF ~SplineOk(lower) THEN [err |-> "KernelError", kern |-> kU]
      ELSE IF ~SplineOk(front) THEN [err |-> "KernelError", kern |-> kL]
      ELSE [err |-> "", kern |-> kF]

(* the tags of upper_spline, lower_spline and front_spline after gen_skin *)
skin_tags(k) == <<Len(k.curves) - 2, Len(k.curves) - 1, Len(k.curves)>>

(* main() lines 417-425: d[-1], the total thickness of the boundary layer *)
RECURSIVE bl_thickness(_, _, _, _)
bl_thickness(first_layer, r, N, i) ==
  IF i >= N - 1 THEN first_layer
  ELSE RAdd(first_layer, RMul(r, bl_thickness(first_layer, r, N, i + 1)))

RAbs(p) == <<Abs(p[1]), p[2]>>

(* a variant of outofbounds that measures the contour alone *)
outofbounds_bare(airfoil, box, radius, blthick) ==
  LET P == airfoil.points
      I == 1..Len(P)
      half == <<1, 2>>
      r2(i) == RAdd(RMul(RSub(P[i].x, half), RSub(P[i].x, half)), RMul(P[i].y, P[i].y))
  IN  IF box # <<>>
      THEN \/ \E i \in I : RLt(RHalf(box[1]), RAbs(RSub(P[i].x, half)))
           \/ \E i \in I : RLt(RHalf(box[2]), RAbs(P[i].y))
      ELSE RLt(radius, RInt(0)) \/ \E i \in I : RLt(RMul(radius, radius), r2(i))

(* outofbounds(airfoil, box, radius, blthick): TRUE when it calls          *)
(* sys.exit(); box is <<>> (None) or <<length, width>>                     *)
outofbounds(airfoil, box, radius, blthick) ==
  LET P == airfoil.points
      I == 1..Len(P)
      half == <<1, 2>>
      tooRight == \E i \in I : RLt(RHalf(box[1]), RAdd(RAbs(RSub(P[i].x, half)), RAbs(blthick)))
      tooHigh == \E i \in I : RLt(RHalf(box[2]), RAdd(RAbs(P[i].y), RAbs(blthick)))
      (* maxr + |blthick| > radius, squared: maxr^2 > (radius - |blthick|)^2 *)
      room == RSub(radius, RAbs(blthick))
      r2(i) == RAdd(RMul(RSub(P[i].x, half), RSub(P[i].x, half)), RMul(P[i].y, P[i].y))
  IN  IF box # <<>> THEN tooRight \/ tooHigh
      ELSE RLt(room, RInt(0)) \/ \E i \in I : RLt(RMul(room, room), r2(i))

PI_APPROX == <<355, 113>>

(* Circle.__init__: floor(2*pi*radius / mesh_size) points and arcs, plus   *)
(* the centre                                                              *)
circle_distribution(radius, mesh_size) ==
  LET q == RDiv(RMul(RMul(PI_APPROX, RInt(2)), radius), mesh_size)
  IN  q[1] \div q[2]

---------------------------------------------------------------------------
(* Inputs.  A contour is the leading edge (0, 0), an upper side of nose    *)
(* points (x = i/32, the first one below the 0.041 and 0.049 of the scans) *)
(* and body points (x = 1 - 2^-j), a trailing edge, and a lower side in    *)
(* the reverse order.  A side of thickness t has y = t*i/128 on the nose   *)
(* and y = t*(d-1)/(8*d*d) at x = 1 - 1/d.                                 *)

MaxNose == 2
MaxBody == 2
Thicknesses == {1, 4, 8}
ThicknessPairs == {<<1, 1>>, <<4, 4>>, <<8, 8>>, <<1, 4>>, <<8, 1>>}

RECURSIVE Pow2(_)
Pow2(j) == IF j = 0 THEN 1 ELSE 2 * Pow2(j - 1)

nose_pt(i, t, s) == <<Rat(i, 32), Rat(s * t * i, 128)>>
body_pt(j, t, s) ==
  LET d == Pow2(j)
  IN  <<Rat(d - 1, d), Rat(s * t * (d - 1), 8 * d * d)>>
side(nose, body, t, s) ==
  [i \in 1..(nose + body) |-> IF i <= nose THEN nose_pt(i, t, s) ELSE body_pt(i - nose, t, s)]

TEGaps == {<<1, 500>>, <<1, 20>>}
StaggeredGaps == {<<1, 16>>}
TE_SHARP == << <<RInt(1), RInt(0)>> >>
TE_DOUBLED == << <<RInt(1), RInt(0)>>, <<RInt(1), RInt(0)>> >>
TE_BASE == << <<RInt(1), <<1, 500>> >>, <<RInt(1), RInt(0)>>, <<RInt(1), <<-1, 500>> >> >>
te_blunt(h) == << <<RInt(1), h>>, <<RInt(1), RNeg(h)>> >>
te_staggered(h) == << << <<19999, 20000>>, h>>, <<RInt(1), RNeg(h)>> >>
TrailingEdges ==
  {TE_SHARP, TE_DOUBLED, TE_BASE} \cup {te_blunt(h) : h \in TEGaps}
  \cup {te_staggered(h) : h \in StaggeredGaps}

contour(noseU, noseL, body, tU, tL, te) ==
  << <<RInt(0), RInt(0)>> >> \o side(noseU, body, tU, 1) \o te
  \o Reverse(side(noseL, body, tL, -1))

Contours ==
  {contour(nU, nL, b, t[1], t[2], te) :
     nU \in 0..MaxNose, nL \in 0..MaxNose, b \in 1..MaxBody,
     t \in ThicknessPairs, te \in TrailingEdges}

(* contours too short to be an airfoil *)
ShortPoints ==
  {<<RInt(0), RInt(0)>>, <<RInt(1), RInt(0)>>, << <<1, 2>>, <<1, 20>> >>,
   <<RInt(1), <<1, 20>> >>}
ShortContours ==
  {<<>>} \cup {<<p>> : p \in ShortPoints} \cup {<<p, q>> : p \in ShortPoints, q \in ShortPoints}

---------------------------------------------------------------------------
(* gmshairfoil2d.py: main(), one action per stage.  pc is the stage main() *)
(* is about to run; "exit" is sys.exit(), "raised" an uncaught exception,  *)
(* "done" the normal return.  args holds the parsed arguments, each chosen *)
(* where main() first reads it.                                            *)

NoAirfoil ==
  [err |-> "", points |-> <<>>, te |-> Point(RInt(0), RInt(0), 0), te_indx |-> 0,
   le |-> Point(RInt(0), RInt(0), 0), le_indx |-> 0, created |-> 0,
   vertical |-> FALSE, inserted |-> FALSE, splines |-> <<>>]

(* the configuration handling of main(), before any of it has run: the    *)
(* dict handed to write_config, the lines of the file, the dict read back, *)
(* the options given on the command line, the parsed and merged namespaces *)
NoConf == [dict |-> <<>>, file |-> <<>>, read |-> <<>>, given |-> {}, ns |-> <<>>, merged |-> <<>>]

NoArgs ==
  [source |-> "", flap_path |-> FALSE, aoa |-> [cos |-> RInt(1), sin |-> RInt(0)],
   structured |-> FALSE, airfoil_mesh_size |-> RInt(0), dx_wake |-> RInt(0),
   dy |-> RInt(0), first_layer |-> RInt(0), ratio |-> RInt(0), no_bl |-> FALSE,
   nb_layers |-> 0, box |-> <<>>, farfield |-> RInt(0), farfield_ctype |-> FALSE,
   ext_mesh_size |-> RInt(0)]

Raise(e) == pc' = "raised" /\ err' = e
Exit == pc' = "exit" /\ err' = "SystemExit"

(* Point.rotation, lines 43-61: gmsh.model.geo.rotate of the kernel point  *)
(* by aoa = [cos, sin] about the z axis through (ox, oy, 0).  The fields x *)
(* and y of the Python object are not touched; the result is the position  *)
(* the kernel holds.                                                       *)
kernel_rotate(aoa, ox, oy, p) ==
  [x |-> RAdd(ox, rotate_x(aoa, RSub(p.x, ox), RSub(p.y, oy))),
   y |-> RAdd(oy, rotate_y(aoa, RSub(p.x, ox), RSub(p.y, oy)))]

(* line 391: airfoil.rotation(aoa, (0.5, 0, 0), (0, 0, 1)), the position   *)
(* in the kernel of a point of the contour                                 *)
positioned(aoa, p) == kernel_rotate(aoa, <<1, 2>>, RInt(0), p)

(* lines 390-393: AirfoilSpline(cloud_points, ...), rotation, synchronize *)
AirfoilStep ==
  /\ pc = "airfoil"
  /\ LET a == AirfoilSpline(cloud, kern.npts)
         made == IF a.created = 0 THEN kern ELSE [Called(kern) EXCEPT !.npts = @ + a.created]
     IN  IF a.err # ""
         THEN /\ Raise(a.err)
              /\ kern' = made
              /\ af' = af
         ELSE /\ pc' = "flap"
              /\ err' = err
              /\ kern' = [made EXCEPT !.rotations = @ + Len(a.points)]
              /\ af' = a
  /\ UNCHANGED <<args, cloud, ct, dat, conf>>

(* lines 395-403: the flap; AirfoilSpline.__init__ takes no is_flap, and   *)
(* flap_points is bound only on the --airfoil_path branch                  *)
FlapStep ==
  /\ pc = "flap"
  /\ IF args.flap_path
     THEN Raise(IF args.source = "airfoil_path" THEN "TypeError" ELSE "UnboundLocalError")
     ELSE pc' = "domain" /\ err' = err
  /\ UNCHANGED <<args, cloud, kern, af, ct, dat, conf>>

(* lines 406-410: CType(...) and mesh.define_bc() *)
StructuredStep ==
  /\ pc = "domain"
  /\ args.structured
  /\ LET res == CType(af, args.dx_wake, args.dy, args.airfoil_mesh_size, args.first_layer,
                      args.ratio, args.aoa, kern)
     IN  /\ ct' = res.obj
         /\ IF res.err # ""
            THEN Raise(res.err) /\ kern' = res.kern
            ELSE /\ pc' = "mesh"
                 /\ err' = err
                 /\ kern' = ctype_define_bc(res.obj, res.kern)
  /\ UNCHANGED <<args, cloud, af, dat, conf>>

(* lines 413-428: gen_skin, the boundary-layer thickness, outofbounds *)
SkinStep ==
  /\ pc = "domain"
  /\ ~args.structured
  /\ LET skin == gen_skin(af, kern)
         d == IF args.no_bl THEN RInt(0)
              ELSE bl_thickness(args.first_layer, args.ratio, args.nb_layers, 0)
     IN  /\ kern' = skin.kern
         /\ af' = IF skin.err # "" THEN af ELSE [af EXCEPT !.splines = skin_tags(skin.kern)]
         /\ IF skin.err # "" THEN Raise(skin.err)
            ELSE IF outofbounds(af, args.box, args.farfield, d) THEN Exit
            ELSE pc' = "ext" /\ err' = err
  /\ UNCHANGED <<args, cloud, ct, dat, conf>>

(* Circle.__init__, Rectangle.__init__: the points and curves created *)
circle_curves(first, centre, n) ==
  [i \in 1..n |-> <<first + i - 1, centre, IF i = n THEN first ELSE first + i>>]
rectangle_curves(first) ==
  <<<<first, first + 1>>, <<first + 1, first + 2>>, <<first + 2, first + 3>>,
    <<first + 3, first>>>>
Range(c0, n) == [i \in 1..n |-> c0 + i]

(* lines 431-492: the external domain, the plane surface, the boundary     *)
(* layer field and the physical groups; CType.__init__ takes no keyword    *)
(* `structured`                                                            *)
ExtDomainStep ==
  /\ pc = "ext"
  /\ LET n == circle_distribution(args.farfield, args.ext_mesh_size)
         c0 == Len(kern.curves)
         l0 == Len(kern.loops)
         s0 == Len(kern.surfs)
         boxed == args.box # <<>>
         ext == IF boxed THEN rectangle_curves(kern.npts + 1)
                ELSE circle_curves(kern.npts + 2, kern.npts + 1, n)
         kE == [Called(kern) EXCEPT !.npts = @ + (IF boxed THEN 4 ELSE n + 1),
                                    !.curves = @ \o ext]
         kP == [kE EXCEPT !.loops = @ \o <<Range(c0, Len(ext)), af.splines>>,
                          !.surfs = Append(@, <<l0 + 1, l0 + 2>>)]
         kB == IF args.no_bl THEN kP ELSE [kP EXCEPT !.fields = @ + 1]
         ext_groups ==
           IF boxed
           THEN <<[dim |-> 1, name |-> "inlet", tags |-> <<c0 + 4>>],
                  [dim |-> 1, name |-> "outlet", tags |-> <<c0 + 2>>],
                  [dim |-> 1, name |-> "wall", tags |-> <<c0 + 1, c0 + 3>>]>>
           ELSE <<[dim |-> 1, name |-> "farfield", tags |-> Range(c0, n)]>>
         kD == [kB EXCEPT !.groups = @ \o ext_groups
                            \o <<[dim |-> 2, name |-> "fluid", tags |-> <<s0 + 1>>],
                                 [dim |-> 1, name |-> "airfoil", tags |-> af.splines]>>]
     IN  IF args.farfield_ctype THEN Raise("TypeError") /\ kern' = kern
         ELSE IF ~boxed /\ n = 0 THEN Raise("ZeroDivisionError") /\ kern' = kern
         ELSE pc' = "mesh" /\ err' = err /\ kern' = kD
  /\ UNCHANGED <<args, cloud, af, ct, dat, conf>>

TransfiniteCounts == {15, 40}

(* a variant of the meshing stage that goes on to gmsh.write without       *)
(* gmsh.model.mesh.generate                                                *)
MeshStepNoGenerate ==
  /\ pc = "mesh"
  /\ kern' = Called(kern)
  /\ pc' = "write"
  /\ UNCHANGED <<args, cloud, af, ct, err, dat, conf>>

(* lines 494-522: synchronize, the mesh options, apply_transfinite_to_     *)
(* surfaces (whose node counts depend on the spline lengths and are left   *)
(* open here), generate and optimize                                       *)
MeshStep ==
  /\ pc = "mesh"
  /\ \E nf \in TransfiniteCounts, nu \in TransfiniteCounts, nl \in TransfiniteCounts :
       LET skin == <<TCall(af.splines[3], nf, "Bump", Coef(RInt(10))),
                     TCall(af.splines[1], nu, "Progression", Coef(RInt(1))),
                     TCall(af.splines[2], nl, "Progression", Coef(RInt(1)))>>
           kT == IF ~args.structured /\ ~args.no_bl
                 THEN [Called(kern) EXCEPT !.tcalls = @ \o skin]
                 ELSE Called(kern)
       IN  /\ args.structured \/ args.no_bl => nf = 15 /\ nu = 15 /\ nl = 15
           /\ kern' = [kT EXCEPT !.generated = @ + 1]
  /\ pc' = "write"
  /\ UNCHANGED <<args, cloud, af, ct, err, dat, conf>>

(* line 533: gmsh.write *)
WriteStep ==
  /\ pc = "write"
  /\ kern' = [Called(kern) EXCEPT !.written = @ + 1]
  /\ pc' = "finalize"
  /\ UNCHANGED <<args, cloud, af, ct, err, dat, conf>>

(* lines 534-543: gmsh.finalize, then the configuration is saved *)
FinalizeStep ==
  /\ pc = "finalize"
  /\ kern' = [kern EXCEPT !.fin = @ + 1]
  /\ pc' = "done"
  /\ UNCHANGED <<args, cloud, af, ct, err, dat, conf>>

(* lines 309-335: parse_args and the early exits (--example_config, a      *)
(* configuration file that cannot be read, no argument at all, --list)     *)
ParseArgs(parsed) ==
  /\ pc = "start"
  /\ \E early \in BOOLEAN, a \in parsed :
       IF early THEN Exit /\ args' = args
       ELSE pc' = "source" /\ err' = err /\ args' = a
  /\ UNCHANGED <<cloud, kern, af, ct, dat, conf>>

(* lines 337-370: the airfoil source.  `files` are the coordinate files    *)
(* that may be found (each a sequence of parsed lines), `nacas` the clouds *)
(* four_digit_naca_airfoil may return.                                     *)
LoadSource(files, nacas) ==
  /\ pc = "source"
  /\ \/ /\ args.source \in {"none", "several"}
        /\ Exit
        /\ cloud' = cloud /\ dat' = dat
     \/ /\ args.source = "naca"
        /\ \E c \in nacas : cloud' = c
        /\ pc' = "reorder" /\ err' = err /\ dat' = dat
     \/ /\ args.source = "airfoil"
        /\ \E found \in BOOLEAN, lines \in files :
             LET r == get_airfoil_points(lines)
             IN  IF ~found THEN Exit /\ cloud' = cloud /\ dat' = dat
                 ELSE IF r.err # "" THEN Raise(r.err) /\ cloud' = cloud /\ dat' = lines
                 ELSE pc' = "reorder" /\ err' = err /\ cloud' = r.points /\ dat' = lines
     \/ /\ args.source = "airfoil_path"
        /\ \E found \in BOOLEAN, lines \in files :
             LET r == read_airfoil_from_file(lines)
             IN  IF ~found THEN Raise("FileNotFoundError") /\ cloud' = cloud /\ dat' = dat
                 ELSE IF r.err # "" THEN Raise(r.err) /\ cloud' = cloud /\ dat' = lines
                 ELSE pc' = "reorder" /\ err' = err /\ cloud' = r.points /\ dat' = lines
  /\ UNCHANGED <<args, kern, af, ct, conf>>

(* lines 374-381: the contour is rotated to start at the leading edge *)
ReorderStep ==
  /\ pc = "reorder"
  /\ LET r == reorder(cloud)
     IN  IF r.err # "" THEN Raise(r.err) /\ cloud' = cloud
         ELSE pc' = "initialize" /\ err' = err /\ cloud' = r.points
  /\ UNCHANGED <<args, kern, af, ct, dat, conf>>

(* lines 384-387: gmsh.initialize() *)
InitializeStep ==
  /\ pc = "initialize"
  /\ kern' = [kern EXCEPT !.init = @ + 1]
  /\ pc' = "airfoil"
  /\ UNCHANGED <<args, cloud, af, ct, err, dat, conf>>

---------------------------------------------------------------------------
(* Library use, as in src/example/example_struct.py: gmsh.initialize(),    *)
(* then AirfoilSpline and CType on a contour given directly.               *)

NoRotation == [cos |-> RInt(1), sin |-> RInt(0)]
Rotated == [cos |-> <<4, 5>>, sin |-> <<-3, 5>>]

(* --structured with --arg_struc dx_wake x dy *)
structured_args(dx_wake, dy, mesh_size, first_layer, ratio, aoa) ==
  [NoArgs EXCEPT !.structured = TRUE, !.dx_wake = dx_wake, !.dy = dy,
                 !.airfoil_mesh_size = mesh_size, !.first_layer = first_layer,
                 !.ratio = ratio, !.aoa = aoa]

CTypeArgs ==
  {structured_args(RInt(10), RInt(10), <<1, 100>>, <<3, 100000>>, <<6, 5>>, NoRotation),
   structured_args(RInt(10), RInt(4), <<1, 100>>, <<3, 100000>>, <<6, 5>>, NoRotation),
   structured_args(RInt(10), RInt(10), <<1, 100>>, <<3, 100000>>, <<6, 5>>, Rotated),
   structured_args(RInt(10), RInt(2), <<1, 4>>, <<1, 100>>, RInt(2), NoRotation),
   structured_args(RInt(1), RInt(10), <<1, 2>>, <<3, 100000>>, <<6, 5>>, NoRotation),
   structured_args(RInt(10), RInt(4), <<3, 5>>, <<3, 100000>>, <<6, 5>>, NoRotation),
   structured_args(RInt(10), RInt(10), <<1, 100>>, <<3, 100000>>, RInt(1), NoRotation)}

InitCType ==
  /\ pc = "airfoil"
  /\ args \in CTypeArgs
  /\ cloud \in Contours \cup ShortContours
  /\ kern = [NoKernel EXCEPT !.init = 1]
  /\ af = NoAirfoil
  /\ ct = NoCType
  /\ err = ""
  /\ dat = <<>>
  /\ conf = NoConf

NextCType == AirfoilStep \/ FlapStep \/ StructuredStep

SpecCType == InitCType /\ [][NextCType]_vars

---------------------------------------------------------------------------
(* The command line: main() from parse_args to its return.                 *)

LE_POINT == <<RInt(0), RInt(0)>>

(* four_digit_naca_airfoil: the upper side without its last point, then    *)
(* the lower side from its trailing-edge point (thickness t/1000 there)    *)
(* back to the point after the leading edge; sampled coarsely here         *)
naca_cloud(t) ==
  <<LE_POINT>> \o side(1, MaxBody, t, 1) \o << <<RInt(1), Rat(-t, 1000)>> >>
  \o Reverse(side(1, MaxBody, t, -1))
NacaClouds == {naca_cloud(t) : t \in Thicknesses}

(* coordinate files: Selig order (trailing edge, upper side, leading edge, *)
(* lower side, trailing edge), Lednicer order (a line of counts, then      *)
(* each side from the leading edge), a contour listed lower side first,    *)
(* a blunt contour, and files with too few points                          *)
selig_file(t) ==
  TE_SHARP \o Reverse(side(1, MaxBody, t, 1)) \o <<LE_POINT>> \o side(1, MaxBody, t, -1)
  \o TE_SHARP
lednicer_file(t) ==
  << <<RInt(4), RInt(4)>> >> \o <<LE_POINT>> \o side(1, MaxBody, t, 1) \o TE_SHARP
  \o <<LE_POINT>> \o side(1, MaxBody, t, -1) \o TE_SHARP
lower_first_file(t) ==
  <<LE_POINT>> \o side(1, MaxBody, t, -1) \o TE_SHARP \o Reverse(side(1, MaxBody, t, 1))
(* three lines that hold two points only: the leading edge repeats *)
closed_short_file == <<LE_POINT>> \o TE_SHARP \o <<LE_POINT>>
DatFiles ==
  {selig_file(1), lednicer_file(1), lower_first_file(1), closed_short_file,
   contour(1, 1, 1, 1, 1, te_blunt(<<1, 500>>))} \cup ShortContours

unstructured_args(no_bl, nb_layers, first_layer, ratio, box, farfield, ext_mesh_size) ==
  [NoArgs EXCEPT !.no_bl = no_bl, !.nb_layers = nb_layers, !.first_layer = first_layer,
                 !.ratio = ratio, !.box = box, !.farfield = farfield,
                 !.ext_mesh_size = ext_mesh_size, !.airfoil_mesh_size = <<1, 100>>]

MainModes ==
  {[structured_args(RInt(10), RInt(10), <<1, 100>>, <<3, 100000>>, <<6, 5>>, NoRotation)
      EXCEPT !.farfield = RInt(10)],
   [structured_args(RInt(10), RInt(10), <<1, 100>>, <<3, 100000>>, <<6, 5>>, Rotated)
      EXCEPT !.farfield = <<3, 10>>],
   unstructured_args(FALSE, 3, <<1, 100>>, <<6, 5>>, <<>>, RInt(10), RInt(5)),
   unstructured_args(TRUE, 3, <<1, 100>>, <<6, 5>>, <<>>, RInt(10), RInt(5)),
   unstructured_args(TRUE, 3, <<1, 100>>, <<6, 5>>, <<>>, <<3, 10>>, <<1, 5>>),
   unstructured_args(TRUE, 3, <<1, 100>>, <<6, 5>>, <<>>, <<3, 5>>, <<1, 2>>),
   unstructured_args(FALSE, 3, <<1, 10>>, <<6, 5>>, <<>>, <<3, 5>>, <<1, 2>>),
   unstructured_args(FALSE, 3, <<1, 100>>, <<6, 5>>, <<>>, RInt(10), RInt(100)),
   unstructured_args(FALSE, 1, <<1, 100>>, <<6, 5>>, <<RInt(4), RInt(2)>>, RInt(10), RInt(5)),
   unstructured_args(FALSE, 3, <<1, 10>>, <<6, 5>>, <<RInt(1), RInt(1)>>, RInt(10), RInt(5)),
   [unstructured_args(FALSE, 3, <<1, 100>>, <<6, 5>>, <<>>, RInt(10), RInt(5))
      EXCEPT !.farfield_ctype = TRUE]}

Sources == {"none", "several", "naca", "airfoil", "airfoil_path"}
MainArgs == {[m EXCEPT !.source = s, !.flap_path = f] : m \in MainModes, s \in Sources,
                                                        f \in BOOLEAN}

Init ==
  /\ pc = "start"
  /\ args = NoArgs
  /\ cloud = <<>>
  /\ kern = NoKernel
  /\ af = NoAirfoil
  /\ ct = NoCType
  /\ err = ""
  /\ dat = <<>>
  /\ conf = NoConf

Next ==
  \/ ParseArgs(MainArgs)
  \/ LoadSource(DatFiles, NacaClouds)
  \/ ReorderStep
  \/ InitializeStep
  \/ AirfoilStep
  \/ FlapStep
  \/ StructuredStep
  \/ SkinStep
  \/ ExtDomainStep
  \/ MeshStep
  \/ WriteStep
  \/ FinalizeStep

Spec == Init /\ [][Next]_vars

---------------------------------------------------------------------------
(* Every way a contour reaches the geometry: the command line as above, or *)
(* library use where, after gmsh.initialize(), AirfoilSpline is built on a *)
(* point cloud given directly and followed by gen_skin or CType.           *)

InitDirect ==
  /\ pc = "airfoil"
  /\ args \in {[m EXCEPT !.source = "direct"] : m \in MainModes}
  /\ cloud \in ShortContours \cup NacaClouds
  /\ kern = [NoKernel EXCEPT !.init = 1]
  /\ af = NoAirfoil
  /\ ct = NoCType
  /\ err = ""
  /\ dat = <<>>
  /\ conf = NoConf

SpecSources == (Init \/ InitDirect) /\ [][Next]_vars

---------------------------------------------------------------------------
(* The reordering of main() applied to any list of distinct points of a    *)
(* small grid.                                                             *)

MaxCloud == 4
GridX == {RInt(0), <<1, 2>>, RInt(1)}
GridY == {<<-1, 5>>, <<-1, 10>>, RInt(0)}

Distinct(s) == \A i \in 1..Len(s) : \A j \in 1..Len(s) : s[i] = s[j] => i = j
Clouds(n) == {s \in [1..n -> GridX \X GridY] : Distinct(s)}

InitReorder ==
  /\ pc = "reorder"
  /\ args = NoArgs
  /\ \E n \in 0..MaxCloud : cloud \in Clouds(n)
  /\ kern = NoKernel
  /\ af = NoAirfoil
  /\ ct = NoCType
  /\ err = ""
  /\ dat = <<>>
  /\ conf = NoConf

SpecReorder == InitReorder /\ [][ReorderStep]_vars

---------------------------------------------------------------------------
(* config_handler.py.  A Python value is a record: t is its type, b the    *)
(* value of a bool, n that of an int, s the characters of a str; a float   *)
(* is the decimal n * 10^e its repr shows (n not a multiple of 10, or      *)
(* n = e = 0), and t = "inf" is float("inf").  A str is the sequence of    *)
(* its characters; a dict is the sequence of its <<key, value>> items in   *)
(* insertion order; a file is the sequence of its lines.                   *)

PyNone == [t |-> "None", b |-> FALSE, n |-> 0, e |-> 0, s |-> <<>>]
PyBool(b) == [t |-> "bool", b |-> b, n |-> 0, e |-> 0, s |-> <<>>]
PyInt(n) == [t |-> "int", b |-> FALSE, n |-> n, e |-> 0, s |-> <<>>]
PyStr(s) == [t |-> "str", b |-> FALSE, n |-> 0, e |-> 0, s |-> s]
PyInf == [t |-> "inf", b |-> FALSE, n |-> 0, e |-> 0, s |-> <<>>]
(* the float n * 10^e, normalised *)
RECURSIVE PyFloat(_, _)
PyFloat(n, e) ==
  IF n = 0 THEN [t |-> "float", b |-> FALSE, n |-> 0, e |-> 0, s |-> <<>>]
  ELSE IF n % 10 = 0 THEN PyFloat(n \div 10, e + 1)
  ELSE [t |-> "float", b |-> FALSE, n |-> n, e |-> e, s |-> <<>>]

(* a == b of Python: numbers (bool, int, float) compare by value *)
IsNumber(v) == v.t \in {"bool", "int", "float"}
AsDecimal(v) ==
  IF v.t = "bool" THEN PyFloat(IF v.b THEN 1 ELSE 0, 0) ELSE PyFloat(v.n, v.e)
PyEq(a, b) ==
  IF IsNumber(a) /\ IsNumber(b) THEN AsDecimal(a) = AsDecimal(b)
  ELSE a = b

DIGITS == <<"0", "1", "2", "3", "4", "5", "6", "7", "8", "9">>
IsDigit(c) == \E i \in 1..10 : DIGITS[i] = c
DigitValue(c) == (CHOOSE i \in 1..10 : DIGITS[i] = c) - 1
RECURSIVE digits_of(_)
digits_of(n) ==
  IF n < 10 THEN <<DIGITS[n + 1]>> ELSE Append(digits_of(n \div 10), DIGITS[(n % 10) + 1])
Zeros(k) == [i \in 1..k |-> "0"]

(* repr of a finite float: positional when the decimal point falls within  *)
(* -4 < decpt <= 16 of the first digit, else d.ddde+XX                     *)
float_fixed(d, decpt) ==
  IF decpt <= 0 THEN <<"0", ".">> \o Zeros(-decpt) \o d
  ELSE IF decpt >= Len(d) THEN d \o Zeros(decpt - Len(d)) \o <<".", "0">>
  ELSE SubSeq(d, 1, decpt) \o <<".">> \o SubSeq(d, decpt + 1, Len(d))
float_exponent(x) ==
  <<"e", IF x < 0 THEN "-" ELSE "+">>
  \o (IF Abs(x) < 10 THEN <<"0">> ELSE <<>>) \o digits_of(Abs(x))
float_scientific(d, decpt) ==
  <<d[1]>> \o (IF Len(d) > 1 THEN <<".">> \o SubSeq(d, 2, Len(d)) ELSE <<>>)
  \o float_exponent(decpt - 1)
float_digits(d, decpt) ==
  IF -4 < decpt /\ decpt <= 16 THEN float_fixed(d, decpt) ELSE float_scientific(d, decpt)
float_repr(n, e) ==
  (IF n < 0 THEN <<"-">> ELSE <<>>)
  \o float_digits(digits_of(Abs(n)), Len(digits_of(Abs(n))) + e)

(* str(value), as the f-string of write_config formats it *)
py_str(v) ==
  IF v.t = "None" THEN <<"N", "o", "n", "e">>
  ELSE IF v.t = "bool"
  THEN (IF v.b THEN <<"T", "r", "u", "e">> ELSE <<"F", "a", "l", "s", "e">>)
  ELSE IF v.t = "int" THEN (IF v.n < 0 THEN <<"-">> ELSE <<>>) \o digits_of(Abs(v.n))
  ELSE IF v.t = "inf" THEN <<"i", "n", "f">>
  ELSE IF v.t = "float" THEN float_repr(v.n, v.e)
  ELSE v.s

(* write_config: one line per item, `key=` for None, else `key= value` *)
config_line(item) ==
  IF item[2].t = "None" THEN item[1] \o <<"=">>
  ELSE item[1] \o <<"=", " ">> \o py_str(item[2])
write_config(config_dict) == [i \in 1..Len(config_dict) |-> config_line(config_dict[i])]

(* str.strip(), str.lower() *)
IsSpace(c) == c \in {" ", "\t"}
RECURSIVE lstrip(_)
lstrip(s) == IF s # <<>> /\ IsSpace(Head(s)) THEN lstrip(Tail(s)) ELSE s
RECURSIVE rstrip(_)
rstrip(s) ==
  IF s # <<>> /\ IsSpace(s[Len(s)]) THEN rstrip(SubSeq(s, 1, Len(s) - 1)) ELSE s
strip(s) == rstrip(lstrip(s))
UPPER == <<"A", "B", "C", "D", "E", "F", "G", "H", "I", "J", "K", "L", "M", "N", "O", "P", "Q", "R", "S", "T", "U", "V", "W", "X", "Y", "Z">>
LOWER == <<"a", "b", "c", "d", "e", "f", "g", "h", "i", "j", "k", "l", "m", "n", "o", "p", "q", "r", "s", "t", "u", "v", "w", "x", "y", "z">>
lower_char(c) ==
  IF \E i \in 1..26 : UPPER[i] = c THEN LOWER[CHOOSE i \in 1..26 : UPPER[i] = c] ELSE c
lower(s) == [i \in 1..Len(s) |-> lower_char(s[i])]
Contains(s, c) == \E i \in 1..Len(s) : s[i] = c
(* 1-based position of the first c in s *)
FirstOf(s, c) == CHOOSE i \in 1..Len(s) : s[i] = c /\ \A j \in 1..(i - 1) : s[j] # c

(* int(s) and float(s) for the decimal literals: [sign] digits, and        *)
(* [sign] digits [. digits] [e [sign] digits] with a digit on one side of  *)
(* the point; `ok` is FALSE where Python raises ValueError                 *)
AllDigits(s) == s # <<>> /\ \A i \in 1..Len(s) : IsDigit(s[i])
RECURSIVE digits_value(_)
digits_value(s) ==
  IF s = <<>> THEN 0 ELSE 10 * digits_value(SubSeq(s, 1, Len(s) - 1)) + DigitValue(s[Len(s)])
HasSign(s) == s # <<>> /\ Head(s) \in {"+", "-"}
Unsigned(s) == IF HasSign(s) THEN Tail(s) ELSE s
SignOf(s) == IF s # <<>> /\ Head(s) = "-" THEN -1 ELSE 1
parse_int(s) ==
  IF AllDigits(Unsigned(s)) THEN [ok |-> TRUE, v |-> PyInt(SignOf(s) * digits_value(Unsigned(s)))]
  ELSE [ok |-> FALSE, v |-> PyStr(s)]
(* mantissa `whole . frac` and exponent text x (empty when there is none) *)
float_of_parts(sign, whole, frac, has_exp, x) ==
  IF ~(\A i \in 1..Len(whole) : IsDigit(whole[i])) \/ ~(\A i \in 1..Len(frac) : IsDigit(frac[i]))
     \/ (whole = <<>> /\ frac = <<>>) \/ (has_exp /\ ~AllDigits(Unsigned(x)))
  THEN [ok |-> FALSE, v |-> PyNone]
  ELSE [ok |-> TRUE,
        v |-> PyFloat(sign * digits_value(whole \o frac),
                      SignOf(x) * digits_value(Unsigned(x)) - Len(frac))]
float_of_mantissa(sign, m, has_exp, x) ==
  IF Contains(m, ".")
  THEN float_of_parts(sign, SubSeq(m, 1, FirstOf(m, ".") - 1),
                      SubSeq(m, FirstOf(m, ".") + 1, Len(m)), has_exp, x)
  ELSE float_of_parts(sign, m, <<>>, has_exp, x)
float_of_unsigned(sign, u) ==
  IF Contains(lower(u), "e")
  THEN float_of_mantissa(sign, SubSeq(u, 1, FirstOf(lower(u), "e") - 1), TRUE,
                         SubSeq(u, FirstOf(lower(u), "e") + 1, Len(u)))
  ELSE float_of_mantissa(sign, u, FALSE, <<>>)
parse_float(s) == float_of_unsigned(SignOf(s), Unsigned(s))

(* lines 75-76: the keys whose value stays a string *)
K_NACA == <<"n", "a", "c", "a">>
K_AIRFOIL == <<"a", "i", "r", "f", "o", "i", "l">>
K_AIRFOIL_PATH == K_AIRFOIL \o <<"_", "p", "a", "t", "h">>
K_FLAP_PATH == <<"f", "l", "a", "p", "_", "p", "a", "t", "h">>
K_FORMAT == <<"f", "o", "r", "m", "a", "t">>
K_ARG_STRUC == <<"a", "r", "g", "_", "s", "t", "r", "u", "c">>
K_BOX == <<"b", "o", "x">>
string_params == {K_NACA, K_AIRFOIL, K_AIRFOIL_PATH, K_FLAP_PATH, K_FORMAT, K_ARG_STRUC, K_BOX}

(* _convert_value with the test for an exponent left out *)
convert_number_dot_only(value) ==
  IF Contains(value, ".")
  THEN (IF parse_float(value).ok THEN parse_float(value).v ELSE PyStr(value))
  ELSE parse_int(value).v
(* _convert_value(value, key, string_params) *)
convert_number(value) ==
  IF Contains(value, ".") \/ Contains(lower(value), "e")
  THEN (IF parse_float(value).ok THEN parse_float(value).v ELSE PyStr(value))
  ELSE parse_int(value).v
convert_value(value, key) ==
  IF key \in string_params THEN PyStr(value)
  ELSE IF lower(value) = <<"t", "r", "u", "e">> THEN PyBool(TRUE)
  ELSE IF lower(value) = <<"f", "a", "l", "s", "e">> THEN PyBool(FALSE)
  ELSE IF lower(value) = <<"n", "o", "n", "e">> THEN PyNone
  ELSE convert_number(value)

(* config[key] = value: an existing key keeps its place *)
HasKey(d, key) == \E i \in 1..Len(d) : d[i][1] = key
Lookup(d, key) == d[CHOOSE i \in 1..Len(d) : d[i][1] = key][2]
dict_set(d, key, value) ==
  IF HasKey(d, key) THEN [i \in 1..Len(d) |-> IF d[i][1] = key THEN <<key, value>> ELSE d[i]]
  ELSE Append(d, <<key, value>>)

(* read_config: the loop body for one line, then the loop *)
read_item(config, key, value) ==
  IF value = <<>> THEN config ELSE dict_set(config, key, convert_value(value, key))
read_line(config, line) ==
  IF line = <<>> \/ Head(line) = "#" \/ ~Contains(line, "=") THEN config
  ELSE read_item(config, strip(SubSeq(line, 1, FirstOf(line, "=") - 1)),
                 strip(SubSeq(line, FirstOf(line, "=") + 1, Len(line))))
RECURSIVE read_lines(_, _)
read_lines(config, lines) ==
  IF lines = <<>> THEN config ELSE read_lines(read_line(config, strip(Head(lines))), Tail(lines))
read_config(lines) == read_lines(<<>>, lines)

(* read_airfoil_from_file on its own, as a caller of the library uses it: *)
(* the files are all sequences of up to MaxFileLines parsed lines, among   *)
(* them a line of point counts, repeated points, files without a point at  *)
(* x >= 1 and files whose second part starts at x = 0                      *)
MaxFileLines == 4
FilePoints ==
  {<<RInt(0), RInt(0)>>, <<RInt(1), RInt(0)>>, <<<<1, 2>>, <<1, 10>>>>,
   <<<<1, 2>>, <<-1, 10>>>>, <<RInt(2), RInt(2)>>}
FileLines == UNION {[1..n -> FilePoints] : n \in 0..MaxFileLines}

InitReadFile ==
  /\ pc = "source"
  /\ args = [NoArgs EXCEPT !.source = "airfoil_path"]
  /\ cloud = <<>>
  /\ kern = NoKernel
  /\ af = NoAirfoil
  /\ ct = NoCType
  /\ err = ""
  /\ dat = <<>>
  /\ conf = NoConf

NextReadFile == LoadSource(FileLines, {})

SpecReadFile == InitReadFile /\ [][NextReadFile]_vars

(* The wall-normal node count of CType.__init__ (line 1019) on its own,    *)
(* computed for one block height dy and then again for a height that is    *)
(* no smaller, first-layer height and ratio staying as they are.           *)
SeriesDy == {<<1, 100>>, <<1, 10>>, RInt(1), RInt(2), RInt(4), RInt(10), RInt(20)}
SeriesHeight == {<<1, 10000>>, <<1, 1000>>, <<1, 100>>, RInt(1)}
SeriesRatio == {<<11, 10>>, <<6, 5>>, <<3, 2>>, RInt(2)}

InitSeries ==
  /\ pc = "series"
  /\ \E dy \in SeriesDy, height \in SeriesHeight, ratio \in SeriesRatio :
       args = structured_args(RInt(10), dy, <<1, 100>>, height, ratio, NoRotation)
  /\ cloud = <<>>
  /\ kern = NoKernel
  /\ af = NoAirfoil
  /\ ct = NoCType
  /\ err = ""
  /\ dat = <<>>
  /\ conf = NoConf

(* nb_points_y for `a`, kept in ct as CType keeps it *)
CountNodes(a) ==
  IF nb_points_y_of(a.dy, a.first_layer, a.ratio).err # ""
  THEN Raise(nb_points_y_of(a.dy, a.first_layer, a.ratio).err) /\ ct' = ct
  ELSE /\ ct' = [ct EXCEPT !.dy = a.dy,
                           !.nb_points_y = nb_points_y_of(a.dy, a.first_layer, a.ratio).n]
       /\ pc' = "counted" /\ err' = err

SeriesStep ==
  /\ pc = "series"
  /\ CountNodes(args)
  /\ UNCHANGED <<args, cloud, kern, af, dat, conf>>

RaiseDyStep ==
  /\ pc = "counted"
  /\ \E dy \in SeriesDy :
       /\ RLe(args.dy, dy)
       /\ args' = [args EXCEPT !.dy = dy]
       /\ CountNodes(args')
  /\ UNCHANGED <<cloud, kern, af, dat, conf>>

NextSeries == SeriesStep \/ RaiseDyStep

SpecSeries == InitSeries /\ [][NextSeries]_vars

(* The clamp of the inlet points and the centre of the arc (lines 950-959) *)
(* on their own: pt1x and pt7x hold the intersections computed at line 947 *)
(* and are clamped in place.                                               *)
InletDy == {RInt(1), RInt(3), RInt(6), RInt(10), RInt(40), RInt(70), RInt(80)}
InletRaw ==
  {RInt(-5), <<-7, 2>>, RInt(-2), RInt(-1), <<-1, 2>>, <<-1, 20>>, RInt(0), <<1, 2>>, RInt(3)}
InletLe == {RInt(0), <<1, 10>>}

InitInlet ==
  /\ pc = "inlet"
  /\ \E dy \in InletDy :
       /\ args = structured_args(RInt(10), dy, <<1, 100>>, <<3, 100000>>, <<6, 5>>, NoRotation)
       /\ \E raw1 \in InletRaw, raw7 \in InletRaw :
            ct = [NoCType EXCEPT !.dy = dy, !.pt1x = raw1, !.pt1y = RHalf(dy),
                                 !.pt7x = raw7, !.pt7y = RNeg(RHalf(dy))]
  /\ \E x \in InletLe : af = [NoAirfoil EXCEPT !.le = Point(x, RInt(0), 0)]
  /\ cloud = <<>>
  /\ kern = NoKernel
  /\ err = ""
  /\ dat = <<>>
  /\ conf = NoConf

InletStep ==
  /\ pc = "inlet"
  /\ ct' = [ct EXCEPT !.pt1x = clamp_pt(ct.pt1x, af.le.x, args.dy),
                      !.pt7x = clamp_pt(ct.pt7x, af.le.x, args.dy),
                      !.centery = centery_of(clamp_pt(ct.pt1x, af.le.x, args.dy), ct.pt1y,
                                             clamp_pt(ct.pt7x, af.le.x, args.dy), ct.pt7y)]
  /\ pc' = "clamped"
  /\ UNCHANGED <<args, cloud, kern, af, err, dat, conf>>

SpecInlet == InitInlet /\ [][InletStep]_vars

---------------------------------------------------------------------------
(* CType on contours with a blunt nose, at no incidence and at the         *)
(* incidence of Rotated.  The lower side passes A = (1/16, -yA),           *)
(* K = (1/20, -1/25) and B = (1/32, -yB) on its way to the leading edge,   *)
(* so that K is the lower split point and the chord from A to B fixes the  *)
(* normal there.                                                           *)

NoseUpper == {<<1, 64>>, <<1, 32>>}
NoseLowerA == {<<1, 16>>, <<1, 20>>, <<1, 24>>}
NoseLowerB == {<<1, 48>>, <<1, 96>>, <<1, 120>>}
NoseDy == {RInt(10), RInt(4)}

nose_contour(yu, yA, yB) ==
  << <<RInt(0), RInt(0)>>, << <<1, 32>>, yu>>, << <<1, 2>>, <<1, 16>> >>,
     <<RInt(1), RInt(0)>>,
     << <<1, 2>>, <<-1, 16>> >>, << <<1, 16>>, RNeg(yA)>>, << <<1, 20>>, <<-1, 25>> >>,
     << <<1, 32>>, RNeg(yB)>> >>

InitNormal ==
  /\ pc = "airfoil"
  /\ \E dy \in NoseDy, aoa \in {NoRotation, Rotated} :
       args = structured_args(RInt(10), dy, <<1, 100>>, <<3, 100000>>, <<6, 5>>, aoa)
  /\ \E yu \in NoseUpper, yA \in NoseLowerA, yB \in NoseLowerB :
       cloud = nose_contour(yu, yA, yB)
  /\ kern = [NoKernel EXCEPT !.init = 1]
  /\ af = NoAirfoil
  /\ ct = NoCType
  /\ err = ""
  /\ dat = <<>>
  /\ conf = NoConf

SpecNormal == InitNormal /\ [][NextCType]_vars

(* gmshairfoil2d.py 119-309: the options of the parser this model keeps,  *)
(* their defaults (argparse leaves a non-string default as written, and a  *)
(* store_true flag defaults to False) and one explicit value for each      *)
K_FARFIELD == <<"f", "a", "r", "f", "i", "e", "l", "d">>
K_NO_BL == <<"n", "o", "_", "b", "l">>
K_UNKNOWN == <<"c", "h", "o", "r", "d">>
S_SU2 == <<"s", "u", "2">>
S_CGNS == <<"c", "g", "n", "s">>
ParserKeys == {K_NACA, K_FARFIELD, K_NO_BL, K_FORMAT}
ParserDefault(key) ==
  IF key = K_NACA THEN PyNone
  ELSE IF key = K_FARFIELD THEN PyInt(10)
  ELSE IF key = K_NO_BL THEN PyBool(FALSE)
  ELSE PyStr(S_SU2)
CliValue(key) ==
  IF key = K_NACA THEN PyStr(<<"0", "0", "1", "2">>)
  ELSE IF key = K_FARFIELD THEN PyFloat(20, 0)
  ELSE IF key = K_NO_BL THEN PyBool(TRUE)
  ELSE PyStr(S_CGNS)
(* parser.parse_args() for a command line giving the options of `given` *)
parse_args(given) == [key \in ParserKeys |-> IF key \in given THEN CliValue(key) ELSE ParserDefault(key)]

(* merge_config_with_args(config_dict, args) *)
IsNoneOrFalse(v) == v.t = "None" \/ (v.t = "bool" /\ ~v.b)
merge_item(ns, key, value) ==
  IF key \in DOMAIN ns /\ IsNoneOrFalse(ns[key]) THEN [ns EXCEPT ![key] = value] ELSE ns
RECURSIVE merge_config_with_args(_, _)
merge_config_with_args(config_dict, ns) ==
  IF config_dict = <<>> THEN ns
  ELSE merge_config_with_args(Tail(config_dict),
                              merge_item(ns, Head(config_dict)[1], Head(config_dict)[2]))

(* The configuration dicts the checks run over: up to MaxItems items with  *)
(* distinct keys, each value one a caller can put under that key.          *)
MaxItems == 2
ConfigKeys == ParserKeys \cup {K_UNKNOWN}
ConfigValues(key) ==
  IF key = K_NACA THEN {PyStr(<<"2", "4", "1", "2">>), PyInt(2412), PyNone}
  ELSE IF key = K_FARFIELD
  THEN {PyInt(15), PyInt(-3), PyFloat(35, -1), PyFloat(1, -4), PyFloat(1, -5),
        PyFloat(1, 16), PyFloat(-125, 20), PyInf, PyStr(<<"1", "0">>)}
  ELSE IF key = K_NO_BL THEN {PyBool(TRUE), PyBool(FALSE), PyStr(<<"F", "a", "l", "s", "e">>)}
  ELSE IF key = K_FORMAT THEN {PyStr(S_CGNS), PyStr(<<"1", "e", "3">>), PyStr(<<>>)}
  ELSE {PyStr(<<"m", "e", "s", "h">>), PyStr(<<"0", ".", "0">>), PyStr(<<" ", "a", "=", "b">>),
        PyInt(0), PyFloat(0, 0), PyNone}
ConfigItems == UNION {{<<key, v>> : v \in ConfigValues(key)} : key \in ConfigKeys}
ConfigDicts ==
  UNION {{d \in [1..n -> ConfigItems] : \A i, j \in 1..n : i # j => d[i][1] # d[j][1]} : n \in 0..MaxItems}

(* save_config writes the dict (gmshairfoil2d.py 536-543), a later run      *)
(* reads the file and merges it into its own arguments (316-320).          *)
InitConfig ==
  /\ pc = "config"
  /\ args = NoArgs
  /\ cloud = <<>>
  /\ kern = NoKernel
  /\ af = NoAirfoil
  /\ ct = NoCType
  /\ err = ""
  /\ dat = <<>>
  /\ \E d \in ConfigDicts : conf = [NoConf EXCEPT !.dict = d]

WriteConfigStep ==
  /\ pc = "config"
  /\ conf' = [conf EXCEPT !.file = write_config(conf.dict)]
  /\ pc' = "saved"
  /\ UNCHANGED <<args, cloud, kern, af, ct, err, dat>>

ParseArgsStep ==
  /\ pc = "saved"
  /\ \E given \in SUBSET ParserKeys :
       conf' = [conf EXCEPT !.given = given, !.ns = parse_args(given)]
  /\ pc' = "parsed"
  /\ UNCHANGED <<args, cloud, kern, af, ct, err, dat>>

ReadConfigStep ==
  /\ pc = "parsed"
  /\ conf' = [conf EXCEPT !.read = read_config(conf.file),
                          !.merged = merge_config_with_args(read_config(conf.file), conf.ns)]
  /\ pc' = "merged"
  /\ UNCHANGED <<args, cloud, kern, af, ct, err, dat>>

NextConfig == WriteConfigStep \/ ParseArgsStep \/ ReadConfigStep

SpecConfig == InitConfig /\ [][NextConfig]_vars

---------------------------------------------------------------------------
(* Properties of AirfoilSpline.__init__.                                   *)

(* the first and the last point of the curve with tag c *)
CurveStart(k, c) == k.curves[c][1]
CurveEnd(k, c) == k.curves[c][Len(k.curves[c])]

(* the points of the contour as given, and its maximum-x point *)
GivenPoints == cloud_to_points(cloud, 0)
GivenTe == GivenPoints[FirstMaxX(GivenPoints)]
NearGivenTe(p) == RLt(RSub(GivenTe.x, TE_TOL), p.x)

(* the contour ends in a blunt trailing edge: the point before the         *)
(* maximum-x point, or the one after it, is within 0.0001 of it in x       *)
BluntContour ==
  /\ Len(cloud) >= 3
  /\ \/ NearGivenTe(PyAt(GivenPoints, FirstMaxX(GivenPoints) - 2))
     \/ /\ FirstMaxX(GivenPoints) < Len(cloud)
        /\ NearGivenTe(GivenPoints[FirstMaxX(GivenPoints) + 1])

(* AirfoilSpline.__init__ has returned an object *)
AirfoilBuilt == pc # "airfoil" /\ af # NoAirfoil

(* exactly one new point, placed between the two trailing-edge points,     *)
(* with x in (te.x, te.x + 0.1], is self.te at self.te_indx and the vertex *)
(* of L8, L9 and L10                                                       *)
OneSyntheticTe ==
  /\ Len(af.points) = Len(cloud) + 1
  /\ af.created = Len(cloud) + 1
  /\ af.te = PyAt(af.points, af.te_indx)
  /\ af.te.tag = Len(cloud) + 1
  /\ \A i \in 1..Len(af.points) : i # af.te_indx + 1 => af.points[i].tag <= Len(cloud)
  /\ NearGivenTe(PyAt(af.points, af.te_indx - 1))
  /\ NearGivenTe(PyAt(af.points, af.te_indx + 1))
  /\ RLt(GivenTe.x, af.te.x)
  /\ RLe(af.te.x, RAdd(GivenTe.x, TE_MAX_AHEAD))
  /\ ct.built =>
       /\ CurveStart(kern, LineTag(ct.tags, 8)) = af.te.tag
       /\ CurveStart(kern, LineTag(ct.tags, 9)) = af.te.tag
       /\ CurveEnd(kern, LineTag(ct.tags, 10)) = af.te.tag

(* nothing was added: the points are the given ones and self.te is the     *)
(* given maximum-x point                                                   *)
TeLeftAlone ==
  /\ af.points = GivenPoints
  /\ af.created = Len(cloud)
  /\ af.te = GivenTe

C6_LeftAlone ==
  BluntContour /\ AirfoilBuilt /\ ~af.inserted /\ ct.built

---------------------------------------------------------------------------
(* Properties of the topology CType builds.                                *)

(* an edge of a curve loop is a signed curve tag; a negative tag reverses  *)
(* the curve                                                               *)
EdgeStart(k, e) == IF e > 0 THEN CurveStart(k, e) ELSE CurveEnd(k, -e)
EdgeEnd(k, e) == IF e > 0 THEN CurveEnd(k, e) ELSE CurveStart(k, -e)
LoopClosed(k, loop) ==
  \A i \in 1..Len(loop) : EdgeEnd(k, loop[i]) = EdgeStart(k, loop[(i % Len(loop)) + 1])

(* C1: for every contour CType accepts, each of the five curve loops A-E   *)
(* is closed: the end point of every signed edge is the start point of the *)
(* next edge of the loop, and the end point of the last edge is the start  *)
(* point of the first.                                                     *)
C1_LoopsClosed ==
  ct.built =>
    /\ Len(ct.curveloops) = 5
    /\ \A i \in 1..5 :
         /\ Len(kern.loops[ct.curveloops[i]]) = 4
         /\ LoopClosed(kern, kern.loops[ct.curveloops[i]])

(* a contour with an inserted trailing edge has been accepted and its five *)
(* loops are in the kernel                                                 *)
C1_Witness ==
  ct.built /\ af.inserted /\ Len(kern.loops) = 5 /\ Len(kern.curves) = 15

(* the places <<loop, position>> where curve c is an edge, either way round *)
Occurrences(k, c) ==
  {p \in (1..Len(k.loops)) \X (1..4) :
     p[2] <= Len(k.loops[p[1]]) /\ Abs(k.loops[p[1]][p[2]]) = c}
SharedEdges(t) ==
  {LineTag(t, 0), LineTag(t, 7), LineTag(t, 8), LineTag(t, 9), LineTag(t, 10)}
AllEdges(t) ==
  {t.upper_spline_back, t.lower_spline_back, t.spline_front, t.circle_arc}
  \cup {t.lines[i] : i \in 1..11}

(* C2: across the five loops of CType every edge shared by two blocks (L0, *)
(* L7, L8, L9, L10) appears in exactly two loops, once with each sign, and *)
(* every other edge appears in exactly one loop.                           *)
C2_SharedEdgesOpposed ==
  ct.built =>
    \A c \in AllEdges(ct.tags) :
      IF c \in SharedEdges(ct.tags)
      THEN \E p \in Occurrences(kern, c), q \in Occurrences(kern, c) :
             /\ p[1] # q[1]
             /\ Occurrences(kern, c) = {p, q}
             /\ kern.loops[p[1]][p[2]] = -kern.loops[q[1]][q[2]]
      ELSE Cardinality(Occurrences(kern, c)) = 1

(* loops A and B are built and both run along L0 in its own direction *)
C2_Witness ==
  /\ ct.built
  /\ kern.loops[ct.curveloops[1]][3] = LineTag(ct.tags, 0)
  /\ kern.loops[ct.curveloops[2]][1] = LineTag(ct.tags, 0)

---------------------------------------------------------------------------
(* Properties of the transfinite settings.                                 *)

(* the positions in the call list of the setTransfiniteCurve calls on c *)
CallsOn(k, c) == {i \in 1..Len(k.tcalls) : k.tcalls[i].curve = c}
TCallOn(k, c) == k.tcalls[CHOOSE i \in CallsOn(k, c) : TRUE]

(* C3: whichever branches CType.__init__ takes, each of its fifteen curves *)
(* (L0-L10, the arc, the three splines) has received exactly one           *)
(* setTransfiniteCurve call when the constructor returns, and never more   *)
(* than one while it runs, so a curve shared by two blocks has one node    *)
(* count, one law and one ratio.                                           *)
C3_OneTransfinitePerCurve ==
  /\ \A c \in 1..Len(kern.curves) : Cardinality(CallsOn(kern, c)) <= 1
  /\ ct.built =>
       /\ Len(kern.tcalls) = 15
       /\ \A c \in AllEdges(ct.tags) : Cardinality(CallsOn(kern, c)) = 1

(* a constructor that returned after taking the square-root branch for L1  *)
(* and the coarse Bump for the front spline                                *)
C3_Witness ==
  /\ ct.built
  /\ TCallOn(kern, LineTag(ct.tags, 1)).coef.sqrt
  /\ TCallOn(kern, ct.tags.spline_front).coef = Coef(BUMP_COARSE)

(* a contour symmetric about y = 0 that starts at its minimum-x point and *)
(* runs clockwise (its second point above the first)                      *)
SymmetricContour ==
  /\ Len(cloud) >= 3
  /\ cloud[1][2] = RInt(0)
  /\ \A i \in 2..Len(cloud) :
       /\ cloud[i][1] = cloud[Len(cloud) + 2 - i][1]
       /\ cloud[i][2] = RNeg(cloud[Len(cloud) + 2 - i][2])
  /\ \A i \in 1..Len(cloud) : RLe(cloud[1][1], cloud[i][1])
  /\ RLt(RInt(0), cloud[2][2])

(* C5: for a symmetric contour and aoa = 0, k2 is the mirror index of k1,  *)
(* outer points 1 and 7 have the same x and y = +dy/2 and -dy/2, the       *)
(* centre of the arc has y = 0, and L0 and L7, L8 and L9 get equal node    *)
(* counts.                                                                 *)
C5_SymmetricSplit ==
  SymmetricContour /\ args.aoa = NoRotation /\ ct.k1 # -1 =>
    /\ ct.k2 = Len(af.points) - ct.k1
    /\ ct.outer # <<>> =>
         /\ ct.pt1x = ct.pt7x
         /\ ct.pt1y = RHalf(ct.dy)
         /\ ct.pt7y = RNeg(RHalf(ct.dy))
         /\ centery_of(ct.pt1x, ct.pt1y, ct.pt7x, ct.pt7y) = RInt(0)
    /\ ct.built =>
         /\ TCallOn(kern, LineTag(ct.tags, 0)).n = TCallOn(kern, LineTag(ct.tags, 7)).n
         /\ TCallOn(kern, LineTag(ct.tags, 8)).n = TCallOn(kern, LineTag(ct.tags, 9)).n

(* a symmetric blunt contour with nose points, built at aoa = 0 *)
C5_Witness ==
  /\ SymmetricContour /\ args.aoa = NoRotation
  /\ ct.built /\ af.inserted
  /\ ct.k1 = 2 /\ ct.k2 = Len(af.points) - 2

---------------------------------------------------------------------------
(* Properties of main().                                                   *)

(* d[-1] of main() lines 417-425 for the arguments chosen *)
BlThickness ==
  IF args.no_bl THEN RInt(0)
  ELSE bl_thickness(args.first_layer, args.ratio, args.nb_layers, 0)

(* a circular farfield of radius smaller than chord/2 plus the thickness   *)
(* of the boundary layer (every contour here has chord 1)                  *)
FarfieldTooSmall ==
  /\ pc # "start"
  /\ args.box = <<>>
  /\ RLt(args.farfield, RAdd(<<1, 2>>, BlThickness))

(* C4: when the farfield radius is smaller than chord/2 plus the           *)
(* boundary-layer thickness, main() - the structured path included - never *)
(* goes on to build the domain or the mesh, and no point, spline, rotation *)
(* or curve has been asked of the kernel.                                  *)
C4_SmallFarfieldRejected ==
  FarfieldTooSmall =>
    /\ pc \notin {"ext", "mesh", "write", "finalize", "done"}
    /\ kern.npts = 0
    /\ kern.curves = <<>>
    /\ kern.rotations = 0

(* a structured run with too small a farfield that wrote its mesh *)
C4_Witness ==
  FarfieldTooSmall /\ args.structured /\ pc = "done" /\ kern.written = 1


(* main() has ended: normally, by sys.exit(), or by an uncaught exception *)
Ended == pc \in {"done", "exit", "raised"}

(* C7: on every path of main() that initializes the kernel session, every  *)
(* kernel call comes after gmsh.initialize and before gmsh.finalize, and   *)
(* once main() has ended - normally, by the bounds rejection or by an      *)
(* error - gmsh.finalize has been called exactly once.                     *)
C7_SessionBracketed ==
  /\ ~kern.outside
  /\ kern.init <= 1
  /\ kern.fin <= kern.init
  /\ Ended /\ kern.init = 1 => kern.fin = 1

(* a run ended by the bounds rejection with its session still open *)
C7_Witness ==
  pc = "exit" /\ kern.init = 1 /\ kern.fin = 0 /\ kern.curves # <<>>

(* the geometry is built, the boundaries are tagged, the mesh is generated *)
MeshComplete ==
  /\ kern.curves # <<>>
  /\ kern.surfs # <<>>
  /\ \E i \in 1..Len(kern.groups) : kern.groups[i].name = "airfoil"
  /\ \E i \in 1..Len(kern.groups) : kern.groups[i].name = "fluid"
  /\ kern.generated = 1

(* C8: gmsh.write is called only once the geometry, the boundary tags and  *)
(* the mesh generation are complete, and never on a path that exits or     *)
(* fails before (no source, several sources, bounds rejection, exception). *)
C8_WriteOnlyComplete ==
  /\ kern.written > 0 => kern.written = 1 /\ MeshComplete /\ pc \in {"finalize", "done"}
  /\ pc \in {"exit", "raised"} => kern.written = 0
  /\ pc = "done" => kern.written = 1

(* the mesh has been written *)
C8_Witness ==
  pc = "done" /\ kern.written = 1 /\ MeshComplete

(* a contour of fewer than three points has left its source: a reader     *)
(* returned it, or the caller gave it to AirfoilSpline directly            *)
ShortContour ==
  /\ Len(cloud) < 3
  /\ cloud # <<>> \/ args.source = "direct"

---------------------------------------------------------------------------
(* Properties of the reordering in main().                                 *)

(* t is s read cyclically from its element k + 1 *)
RotationOf(s, t) ==
  /\ Len(s) = Len(t)
  /\ \E k \in 0..(Len(s) - 1) :
       \A i \in 1..Len(s) : t[i] = s[((i - 1 + k) % Len(s)) + 1]

(* C10: the reordered contour is a cyclic rotation, possibly reversed, of  *)
(* the input; its first point has the minimum x and its second point is    *)
(* not lower in y than the first.                                          *)
C10_ReorderedClockwise ==
  [][pc = "reorder" /\ pc' = "initialize" =>
       /\ RotationOf(cloud, cloud') \/ RotationOf(Reverse(cloud), cloud')
       /\ \A i \in 1..Len(cloud') : RLe(cloud'[1][1], cloud'[i][1])
       /\ ~RLt(cloud'[2][2], cloud'[1][2])]_vars

(* a reordered contour whose second point is lower than its first *)
C10_Witness ==
  pc = "initialize" /\ Len(cloud) >= 3 /\ RLt(cloud[2][2], cloud[1][2])

---------------------------------------------------------------------------
(* Properties of CType.define_bc.                                          *)

(* the physical groups of dimension dim that list tag c, with the number   *)
(* of times each lists it                                                  *)
GroupsOf(k, dim, c) ==
  {i \in 1..Len(k.groups) :
     k.groups[i].dim = dim /\ \E j \in 1..Len(k.groups[i].tags) : k.groups[i].tags[j] = c}
TimesListed(g, c) == Cardinality({j \in 1..Len(g.tags) : g.tags[j] = c})
InGroupOnce(k, dim, c, name) ==
  /\ \E i \in 1..Len(k.groups) : GroupsOf(k, dim, c) = {i}
  /\ \A i \in GroupsOf(k, dim, c) :
       k.groups[i].name = name /\ TimesListed(k.groups[i], c) = 1

(* define_bc has run on a CType that was built *)
BcDefined == ct.built /\ pc = "mesh"

(* C11: after define_bc every curve on the boundary of the five blocks     *)
(* (a curve in one loop only) is in exactly one physical group: the three  *)
(* splines in "airfoil", L1-L6 and the arc in "farfield"; no shared edge   *)
(* (L0, L7, L8, L9, L10) is in a group; "fluid" lists exactly the five     *)
(* block surfaces.                                                         *)
C11_BoundaryGroups ==
  BcDefined =>
    /\ \A c \in AllEdges(ct.tags) :
         IF Cardinality(Occurrences(kern, c)) = 1
         THEN InGroupOnce(kern, 1, c,
                IF c \in {ct.tags.spline_front, ct.tags.upper_spline_back,
                          ct.tags.lower_spline_back}
                THEN "airfoil" ELSE "farfield")
         ELSE GroupsOf(kern, 1, c) = {}
    /\ \A i \in 1..6 : InGroupOnce(kern, 1, LineTag(ct.tags, i), "farfield")
    /\ InGroupOnce(kern, 1, ct.tags.circle_arc, "farfield")
    /\ \A c \in SharedEdges(ct.tags) : GroupsOf(kern, 1, c) = {}
    /\ \A c \in 1..Len(kern.curves) : c \notin AllEdges(ct.tags) => GroupsOf(kern, 1, c) = {}
    /\ \A sf \in 1..Len(kern.surfs) : InGroupOnce(kern, 2, sf, "fluid")
    /\ Len(ct.surfaces) = 5 /\ Len(kern.surfs) = 5
    /\ \A i \in 1..Len(kern.groups) :
         kern.groups[i].name = "fluid" =>
           {kern.groups[i].tags[j] : j \in 1..Len(kern.groups[i].tags)}
             = {ct.surfaces[j] : j \in 1..5}

(* define_bc has tagged the three groups of a built C-type domain *)
C11_Witness ==
  BcDefined /\ Len(kern.groups) = 3 /\ Len(kern.loops) = 5

---------------------------------------------------------------------------
(* Properties of merge_config_with_args. *)

Merged == pc = "merged"
(* the value the merge is to leave under a key present on both sides *)
MergeExpected(key) ==
  IF key \in conf.given THEN CliValue(key) ELSE Lookup(conf.read, key)

(* C12: after the merge, every key present both in the config dict and in  *)
(* the parsed arguments holds the command-line value if the option was     *)
(* given explicitly and the config value otherwise, also when the option   *)
(* only holds its argparse default; a key absent from the config keeps the *)
(* parsed value, and a config key unknown to the parser adds nothing.      *)
C12_MergePrecedence ==
  Merged =>
    /\ DOMAIN conf.merged = ParserKeys
    /\ \A key \in ParserKeys :
         conf.merged[key] = IF HasKey(conf.read, key) THEN MergeExpected(key) ELSE conf.ns[key]

(* an option left at a default that is neither None nor False, which the   *)
(* config file sets, and an option given explicitly that it also sets      *)
C12_Witness ==
  /\ Merged
  /\ HasKey(conf.read, K_FARFIELD) /\ K_FARFIELD \notin conf.given
  /\ HasKey(conf.read, K_NO_BL) /\ K_NO_BL \in conf.given
  /\ conf.merged[K_NO_BL] = CliValue(K_NO_BL)

---------------------------------------------------------------------------
(* Properties of write_config followed by read_config. *)

ConfigRead == pc = "merged"
(* the item comes back: its key is in the dict read, with an equal value *)
ReadBack(item) == HasKey(conf.read, item[1]) /\ PyEq(Lookup(conf.read, item[1]), item[2])
(* a string that survives the line format: not empty, nothing to strip *)
PlainString(s) == s # <<>> /\ strip(s) = s
(* a string that reads as no bool, None or number *)
ReadsAsText(s) ==
  /\ lower(s) \notin {<<"t", "r", "u", "e">>, <<"f", "a", "l", "s", "e">>, <<"n", "o", "n", "e">>}
  /\ ~parse_int(s).ok
  /\ ~parse_float(s).ok
(* the items whose type the text format keeps: a string under a key of     *)
(* string_params, a bool, int or finite float under another key, or a      *)
(* string there that reads as text                                         *)
TypeKept(item) ==
  IF item[1] \in string_params THEN item[2].t = "str" /\ PlainString(item[2].s)
  ELSE \/ item[2].t \in {"bool", "int", "float"}
       \/ item[2].t = "str" /\ PlainString(item[2].s) /\ ReadsAsText(item[2].s)

(* C13 as stated: every item of the written dict whose value is not None   *)
(* is read back with an equal value.                                       *)
C13_RoundTripAll ==
  ConfigRead => \A i \in 1..Len(conf.dict) : conf.dict[i][2].t # "None" => ReadBack(conf.dict[i])

(* C13, amended: every item whose type the text format keeps is read back  *)
(* with an equal value, whatever the other items of the dict are.          *)
C13_RoundTripTyped ==
  ConfigRead => \A i \in 1..Len(conf.dict) : TypeKept(conf.dict[i]) => ReadBack(conf.dict[i])

(* a float written in exponent notation and a string under a string key    *)
(* have been written and read back                                         *)
C13_Witness ==
  /\ ConfigRead
  /\ Len(conf.dict) = 2 /\ Len(conf.read) = 2
  /\ \E i \in 1..2 : conf.dict[i][2] = PyFloat(1, -5) /\ Contains(conf.file[i], "e")
  /\ \E i \in 1..2 : conf.dict[i] = <<K_FORMAT, PyStr(S_CGNS)>>

---------------------------------------------------------------------------
(* Properties of read_airfoil_from_file. *)

FileRead == args.source = "airfoil_path" /\ pc = "reorder"
(* a coordinate line the reader accepts: not a line of point counts *)
Accepted(l) == ~(RLt(RInt(1), l[1]) /\ RLt(RInt(1), l[2]))
AcceptedOf(lines) == SelectSeq(lines, Accepted)
(* 1-based place of the first accepted line with x >= 1, else len // 2 *)
SplitAt(a) ==
  IF \E i \in 1..Len(a) : RLe(RInt(1), a[i][1])
  THEN CHOOSE i \in 1..Len(a) : RLe(RInt(1), a[i][1]) /\ \A j \in 1..(i - 1) : RLt(a[j][1], RInt(1))
  ELSE Len(a) \div 2 + 1
LowerPart(a) == SubSeq(a, SplitAt(a) + 1, Len(a))
(* the upper part, then the lower part, turned round when it starts at x = 0 *)
UpperThenLower(a) ==
  SubSeq(a, 1, SplitAt(a))
  \o (IF LowerPart(a) # <<>> /\ LowerPart(a)[1][1] = RInt(0) THEN Reverse(LowerPart(a))
      ELSE LowerPart(a))
FirstPlace(s, p) == CHOOSE i \in 1..Len(s) : s[i] = p /\ \A j \in 1..(i - 1) : s[j] # p

(* C14: the points returned hold no duplicate, each is an accepted line of *)
(* the file, each accepted line is among them, and they stand in the order *)
(* of their first occurrence in the upper-then-lower sequence.             *)
C14_UniqueInOrder ==
  FileRead =>
    /\ \A i, j \in 1..Len(cloud) : i # j => cloud[i] # cloud[j]
    /\ {cloud[i] : i \in 1..Len(cloud)} = {dat[i] : i \in {k \in 1..Len(dat) : Accepted(dat[k])}}
    /\ \A i, j \in 1..Len(cloud) :
         i < j => FirstPlace(UpperThenLower(AcceptedOf(dat)), cloud[i])
                    < FirstPlace(UpperThenLower(AcceptedOf(dat)), cloud[j])

(* a file with a line of point counts, a repeated point, and a lower part  *)
(* that starts at x = 0 and is turned round                                *)
C14_Witness ==
  /\ FileRead
  /\ \E k \in 1..Len(dat) : ~Accepted(dat[k])
  /\ Len(cloud) < Len(AcceptedOf(dat))
  /\ LowerPart(AcceptedOf(dat)) # <<>> /\ LowerPart(AcceptedOf(dat))[1][1] = RInt(0)
  /\ Len(LowerPart(AcceptedOf(dat))) >= 2
  /\ cloud[Len(cloud)] = <<RInt(0), RInt(0)>>

---------------------------------------------------------------------------
(* Properties of the node counts of CType.__init__. *)

(* C15: for a fixed first-layer height and a ratio above 1, nb_points_y is *)
(* at least 3 for every positive dy and does not decrease when dy grows.   *)
C15_NodesGrowWithDy ==
  [][pc' = "counted" =>
       /\ ct'.nb_points_y >= 3
       /\ pc = "counted" => ct'.nb_points_y >= ct.nb_points_y]_vars

(* a larger dy has given more nodes than the three of the smallest block *)
C15_Witness ==
  /\ pc = "counted"
  /\ RLt(RInt(1), args.ratio) /\ RLt(RInt(0), args.first_layer)
  /\ args.dy = RInt(20)
  /\ ct.nb_points_y > 3

---------------------------------------------------------------------------
(* Properties of the split of the contour in CType.__init__. *)

(* CType(...) has been called on a built airfoil: it returned or raised *)
SplitTried == af # NoAirfoil /\ args.structured /\ ~args.flap_path /\ pc \in {"mesh", "raised"}
StartsAtMinX(P) == FirstMinX(P) = 1
(* the turn at the first point, from its predecessor (the last point) to   *)
(* its successor: at an extreme point of a closed contour it is a right    *)
(* turn, a negative cross product, exactly when the contour runs clockwise *)
TurnAtStart(P) ==
  RSub(RMul(RSub(P[1].x, P[Len(P)].x), RSub(P[2].y, P[1].y)),
       RMul(RSub(P[1].y, P[Len(P)].y), RSub(P[2].x, P[1].x)))
Clockwise(P) == Len(P) >= 3 /\ RLt(TurnAtStart(P), RInt(0))
TagsOf(k, c) == {k.curves[c][i] : i \in 1..Len(k.curves[c])}
(* the two curves meet in the end of the first, the start of the second,   *)
(* and nowhere else                                                        *)
MeetOnlyAt(k, c, d) ==
  /\ CurveEnd(k, c) = CurveStart(k, d)
  /\ TagsOf(k, c) \cap TagsOf(k, d) = {CurveEnd(k, c)}

(* C16: for a contour that starts at its minimum-x point and runs          *)
(* clockwise, the scan binds k1 and k2 with 0 <= k1 < te_indx < k2 <       *)
(* len(points), and the upper-back, lower-back and front arcs follow one   *)
(* another, share only their end points and together hold every point.     *)
C16_SplitWellFormed ==
  (SplitTried /\ StartsAtMinX(af.points) /\ Clockwise(af.points)) =>
    /\ err # "UnboundLocalError"
    /\ 0 <= ct.k1 /\ ct.k1 < af.te_indx /\ af.te_indx < ct.k2 /\ ct.k2 < Len(af.points)
    /\ ct.built =>
         /\ MeetOnlyAt(kern, ct.tags.upper_spline_back, ct.tags.lower_spline_back)
         /\ MeetOnlyAt(kern, ct.tags.lower_spline_back, ct.tags.spline_front)
         /\ MeetOnlyAt(kern, ct.tags.spline_front, ct.tags.upper_spline_back)
         /\ TagsOf(kern, ct.tags.upper_spline_back) \cup TagsOf(kern, ct.tags.lower_spline_back)
              \cup TagsOf(kern, ct.tags.spline_front) = {af.points[i].tag : i \in 1..Len(af.points)}

(* a clockwise contour from its minimum-x point whose split is as claimed, *)
(* with points of the lower side left for the front arc                    *)
C16_Witness ==
  /\ SplitTried /\ StartsAtMinX(af.points) /\ Clockwise(af.points)
  /\ ct.built
  /\ 0 < ct.k1 /\ ct.k1 < af.te_indx /\ af.te_indx < ct.k2 /\ ct.k2 < Len(af.points) - 1
  /\ MeetOnlyAt(kern, ct.tags.upper_spline_back, ct.tags.lower_spline_back)
  /\ MeetOnlyAt(kern, ct.tags.spline_front, ct.tags.upper_spline_back)

---------------------------------------------------------------------------
(* Properties of the progressions CType.__init__ sets. *)

CTypeBuilt == ct.built /\ pc = "mesh"
(* the one call made on line L_i *)
LineCall(i) == TCallOn(kern, LineTag(ct.tags, i))
(* a point of the airfoil contour or of the wake centreline (outer point 4) *)
OnCentreline(p) == p = ct.outer[5] \/ \E i \in 1..Len(af.points) : af.points[i].tag = p
WallNormalEdges == {0, 7, 8, 9, 3, 4}
StartsOnCentreline(i) == OnCentreline(CurveStart(kern, LineTag(ct.tags, i)))
EndsOnCentreline(i) == OnCentreline(CurveEnd(kern, LineTag(ct.tags, i)))

(* C17: each wall-normal edge L0, L7, L8, L9, L3, L4 gets nb_points_y      *)
(* nodes and a progression: the ratio when its start point lies on the     *)
(* airfoil or the wake centreline (L0, L8, L9, L4), 1/ratio when its end   *)
(* point does (L7, L3).                                                    *)
C17_WallNormalProgression ==
  CTypeBuilt =>
    /\ \A i \in WallNormalEdges :
         /\ CallsOn(kern, LineTag(ct.tags, i)) # {}
         /\ LineCall(i).n = ct.nb_points_y
         /\ LineCall(i).law = "Progression"
         /\ StartsOnCentreline(i) # EndsOnCentreline(i)
         /\ StartsOnCentreline(i) => LineCall(i).coef = Coef(args.ratio)
         /\ EndsOnCentreline(i) => LineCall(i).coef = Coef(RInv(args.ratio))
    /\ {i \in WallNormalEdges : StartsOnCentreline(i)} = {0, 8, 9, 4}

(* a mesh whose edges towards the wall carry 1/ratio and whose edges away  *)
(* from it carry the ratio                                                 *)
C17_Witness ==
  /\ CTypeBuilt
  /\ ct.nb_points_y > 3
  /\ RLt(RInt(1), args.ratio)
  /\ LineCall(7).coef = Coef(RInv(args.ratio)) /\ EndsOnCentreline(7)
  /\ LineCall(4).coef = Coef(args.ratio) /\ StartsOnCentreline(4)

(* the x of an end point of a wake edge: the trailing edge or an outer point *)
PointX(p) ==
  IF p = af.te.tag THEN af.te.x
  ELSE outer_points_x(af.te.x, args.dx_wake, ct.pt1x, ct.pt7x)[CHOOSE j \in 1..8 : ct.outer[j] = p]
WakeEdges == {2, 10, 5}
RunsDownstream(i) ==
  RLt(PointX(CurveStart(kern, LineTag(ct.tags, i))), PointX(CurveEnd(kern, LineTag(ct.tags, i))))
RunsUpstream(i) ==
  RLt(PointX(CurveEnd(kern, LineTag(ct.tags, i))), PointX(CurveStart(kern, LineTag(ct.tags, i))))

(* C18: each wake edge L2, L10, L5 gets nb_points_wake nodes and a         *)
(* progression of 1.025 when it runs downstream (L2), of 1/1.025 when it   *)
(* runs upstream (L10, L5), so that the spacing grows downstream on all    *)
(* three.                                                                  *)
C18_WakeProgression ==
  CTypeBuilt =>
    /\ \A i \in WakeEdges :
         /\ CallsOn(kern, LineTag(ct.tags, i)) # {}
         /\ LineCall(i).n = ct.nb_points_wake
         /\ LineCall(i).law = "Progression"
         /\ RunsDownstream(i) \/ RunsUpstream(i)
         /\ RunsDownstream(i) => LineCall(i).coef = Coef(Rat(1025, 1000))
         /\ RunsUpstream(i) => LineCall(i).coef = Coef(Rat(1000, 1025))
    /\ {i \in WakeEdges : RunsDownstream(i)} = {2}

(* the three wake edges of a built mesh, one drawn downstream and two      *)
(* upstream, with their opposite ratios                                    *)
C18_Witness ==
  /\ CTypeBuilt
  /\ RunsDownstream(2) /\ RunsUpstream(10) /\ RunsUpstream(5)
  /\ RLt(RInt(1), LineCall(2).coef.v)
  /\ RLt(LineCall(10).coef.v, RInt(1)) /\ LineCall(5).coef = LineCall(10).coef
  /\ ct.nb_points_wake > 3

(* the trailing edge lies beyond the end mesh size, 2 * mesh_size *)
TeBeyondMeshSize == RLt(RMul(RInt(2), args.airfoil_mesh_size), af.te.x)
UpperBackCall == TCallOn(kern, ct.tags.upper_spline_back)
LowerBackCall == TCallOn(kern, ct.tags.lower_spline_back)

(* C19: whenever te.x > 2 * mesh_size, ratio_airfoil is above 1, the       *)
(* upper-back spline gets Progression(ratio_airfoil) and the lower-back    *)
(* spline Progression(1/ratio_airfoil), both with nb_airfoil nodes.        *)
C19_BackSplineProgression ==
  (CTypeBuilt /\ TeBeyondMeshSize) =>
    /\ RLt(RInt(1), ct.ratio_airfoil)
    /\ CallsOn(kern, ct.tags.upper_spline_back) # {}
    /\ CallsOn(kern, ct.tags.lower_spline_back) # {}
    /\ UpperBackCall.law = "Progression" /\ UpperBackCall.coef = Coef(ct.ratio_airfoil)
    /\ LowerBackCall.law = "Progression" /\ LowerBackCall.coef = Coef(RInv(ct.ratio_airfoil))
    /\ UpperBackCall.n = ct.nb_airfoil /\ LowerBackCall.n = ct.nb_airfoil

(* a fine mesh on a chord of 1: many nodes, a ratio just above 1 *)
C19_Witness ==
  /\ CTypeBuilt /\ TeBeyondMeshSize
  /\ ct.nb_airfoil > 3
  /\ RLt(RInt(1), UpperBackCall.coef.v) /\ RLt(LowerBackCall.coef.v, RInt(1))

(* the arguments of CType are positive and the ratio is above 1 *)
PositiveArgs ==
  /\ RLt(RInt(0), args.dx_wake) /\ RLt(RInt(0), args.dy)
  /\ RLt(RInt(0), args.airfoil_mesh_size) /\ RLt(RInt(0), args.first_layer)
  /\ RLt(RInt(1), args.ratio)

(* C20: for positive dx_trail, dy, mesh_size and height and a ratio above  *)
(* 1, every node count handed to setTransfiniteCurve (nb_points_y,         *)
(* nb_points_wake, nb_airfoil, nb_airfoil_front) is at least 3.            *)
C20_NodeCountsAtLeast3 ==
  PositiveArgs => \A i \in 1..Len(kern.tcalls) : kern.tcalls[i].n >= 3

(* a built mesh all of whose fifteen calls carry three nodes or more *)
C20_Witness ==
  /\ CTypeBuilt /\ PositiveArgs
  /\ Len(kern.tcalls) = 15
  /\ \A i \in 1..Len(kern.tcalls) : kern.tcalls[i].n >= 3
  /\ LineCall(2).n = ct.nb_points_wake /\ ct.nb_points_wake > 3

---------------------------------------------------------------------------
(* Properties of the wall-normal series of CType.__init__. *)

Counted == pc = "counted"
(* the sums are evaluated where the ratio is a whole number r, in closed   *)
(* form: height + height*r + ... + height*r^(N-1) = height*(r^N - 1)/(r - 1) *)
WholeRatio == args.ratio[2] = 1 /\ args.ratio[1] > 1
RECURSIVE IntPow(_, _)
IntPow(r, N) == IF N = 0 THEN 1 ELSE r * IntPow(r, N - 1)
GeometricSum(height, r, N) == RMul(height, Rat(IntPow(r, N) - 1, r - 1))
SumReaches(N) == RLe(RHalf(args.dy), GeometricSum(args.first_layer, args.ratio[1], N))

(* C21: the wall-normal count is the least N >= 3 such that the sum of the *)
(* N terms height*ratio^i (i = 0..N-1) reaches or exceeds dy/2.            *)
C21_LeastCount ==
  (Counted /\ WholeRatio) =>
    /\ ct.nb_points_y >= 3
    /\ SumReaches(ct.nb_points_y)
    /\ ct.nb_points_y > 3 => ~SumReaches(ct.nb_points_y - 1)

(* a block so low that three terms already exceed dy/2: there the count is *)
(* the least one                                                           *)
C21_Witness ==
  /\ Counted /\ WholeRatio
  /\ ct.nb_points_y = 3
  /\ SumReaches(3)

(* CType(...) was called with a growth ratio of exactly 1 and got as far   *)
(* as its node counts: the split and the outer points were made            *)
UnitRatioCounted == SplitTried /\ args.ratio = RInt(1) /\ ct.outer # <<>>

(* C22: with a ratio of exactly 1 the construction completes without a     *)
(* division by zero or any other error, and the wall-normal count is the   *)
(* one of dy/2 divided by the first-layer height.                          *)
C22_UnitRatioCompletes ==
  UnitRatioCounted =>
    /\ err = "" /\ ct.built
    /\ ct.nb_points_y >= 3
    /\ RLe(RHalf(args.dy), RMul(args.first_layer, RInt(ct.nb_points_y)))

(* the constructor has reached line 1019 with ratio = 1 *)
C22_Witness ==
  /\ UnitRatioCounted
  /\ RLt(RInt(0), args.first_layer) /\ RLt(RInt(0), args.dy)
  /\ Len(kern.curves) = 15 /\ kern.tcalls = <<>>

(* CType(...) got as far as its node counts with positive arguments and    *)
(* the trailing edge no further than the end mesh size: l <= b             *)
DegenerateSeries ==
  SplitTried /\ ct.outer # <<>> /\ PositiveArgs /\ ~TeBeyondMeshSize
AirfoilEdges ==
  {ct.tags.upper_spline_back, ct.tags.lower_spline_back, LineTag(ct.tags, 1), LineTag(ct.tags, 6)}

(* C23: when te.x <= 2 * mesh_size no error is raised, the two back arcs   *)
(* and the edges L1 and L6 get the minimum count 3, and the progression    *)
(* handed to the kernel for them is 1.                                     *)
C23_DegenerateFallsBack ==
  DegenerateSeries =>
    /\ err = "" /\ ct.built
    /\ \A c \in AirfoilEdges :
         /\ CallsOn(kern, c) # {}
         /\ TCallOn(kern, c).n = 3
         /\ TCallOn(kern, c).coef = Coef(RInt(1))

(* a degenerate series on which the constructor completes, with the        *)
(* minimum count on the four edges                                         *)
C23_Witness ==
  /\ DegenerateSeries /\ ct.built
  /\ ct.nb_airfoil = 3
  /\ \A c \in AirfoilEdges : CallsOn(kern, c) # {} /\ TCallOn(kern, c).n = 3

---------------------------------------------------------------------------
(* Properties of the inlet points and the arc of CType.__init__. *)

Clamped == pc = "clamped"
WithinClamp(x) ==
  /\ RLe(RSub(af.le.x, Rat(35, 10)), x)
  /\ RLe(x, RSub(af.le.x, RMul(Rat(5, 100), args.dy)))

(* C24 as stated: for every positive dy, pt1x and pt7x satisfy             *)
(* le.x - 3.5 <= x <= le.x - 0.05*dy.                                      *)
C24_ClampedWithin == Clamped => WithinClamp(ct.pt1x) /\ WithinClamp(ct.pt7x)

(* C24, amended: for every dy with 0 < dy <= 70, pt1x and pt7x satisfy     *)
(* le.x - 3.5 <= x <= le.x - 0.05*dy; for a larger dy both are le.x - 3.5. *)
C24_ClampedWithinUpTo70 ==
  Clamped =>
    IF RLe(args.dy, RInt(70)) THEN WithinClamp(ct.pt1x) /\ WithinClamp(ct.pt7x)
    ELSE ct.pt1x = RSub(af.le.x, Rat(35, 10)) /\ ct.pt7x = ct.pt1x

(* one point held back at le.x - 0.05*dy, the other at le.x - 3.5 *)
C24_Witness ==
  /\ Clamped
  /\ args.dy = RInt(10)
  /\ ct.pt1x = RSub(af.le.x, <<1, 2>>)
  /\ ct.pt7x = RSub(af.le.x, <<7, 2>>)

(* d(c, p)^2 - d(c, q)^2 for c = (cx, cy), p = (px, py), q = (qx, qy),     *)
(* each difference of two squares written as a product                     *)
DistanceGap(cx, cy, px, py, qx, qy) ==
  RAdd(RMul(RSub(qx, px), RSub(RAdd(cx, cx), RAdd(px, qx))),
       RMul(RSub(qy, py), RSub(RAdd(cy, cy), RAdd(py, qy))))

(* C26: for all clamped pt1x and pt7x and every dy > 0, the arc centre     *)
(* (0.5, centery) is as far from outer point 1 (pt1x, dy/2) as from outer  *)
(* point 7 (pt7x, -dy/2).                                                  *)
C26_CentreEquidistant ==
  Clamped =>
    RIsZero(DistanceGap(<<1, 2>>, ct.centery, ct.pt1x, RHalf(args.dy),
                        ct.pt7x, RNeg(RHalf(args.dy))))

(* points 1 and 7 at different x, the centre off the axis *)
C26_Witness ==
  /\ Clamped
  /\ ct.pt1x # ct.pt7x
  /\ ~RIsZero(ct.centery)
  /\ ct.pt1y = RHalf(args.dy) /\ ct.pt7y = RNeg(RHalf(args.dy))

(* the y-component, after the rotation by hand, of the normal to the       *)
(* chord joining the neighbours of the contour point at index k            *)
NormalY(k) ==
  rotate_y(args.aoa,
           RSub(PyAt(af.points, k - 1).y, PyAt(af.points, k + 1).y),
           RSub(PyAt(af.points, k + 1).x, PyAt(af.points, k - 1).x))

(* CType got as far as the inlet points, and the ray from one of the two   *)
(* split points runs parallel to the lines y = dy/2 and y = -dy/2          *)
ParallelRay ==
  /\ SplitTried
  /\ ct.k1 # -1 /\ ct.k2 # -1
  /\ Len(kern.curves) >= 3
  /\ PyOk(af.points, ct.k1 + 1) /\ PyOk(af.points, ct.k2 + 1)
  /\ RIsZero(NormalY(ct.k1)) \/ RIsZero(NormalY(ct.k2))

(* C25: when the normal ray from a split point is parallel to the lines    *)
(* y = dy/2 and y = -dy/2, CType does not abort: outer points 1 and 7 are  *)
(* created and the five-block topology is completed.                       *)
C25_ParallelRayFallsBack ==
  ParallelRay =>
    /\ err = ""
    /\ ct.built
    /\ ct.outer # <<>>
    /\ Len(kern.surfs) = 5

(* the constructor stopped at the division by the zero y-component, the    *)
(* three splines created and none of the eleven lines                      *)
C25_Witness ==
  /\ ParallelRay
  /\ pc = "raised"
  /\ Len(kern.curves) = 3
  /\ ct.outer = <<>>

(* Properties of the rotation by hand of CType.__init__. *)

(* CType ran up to the outer points, on the contour main() has rotated *)
OuterPlaced == SplitTried /\ ct.outer # <<>> /\ kern.rotations = Len(af.points)

(* lines 947-948: xup, yup (k = k1) and xdown, ydown (k = k2) *)
ByHand(k) ==
  [x |-> rotate_x(args.aoa, PyAt(af.points, k).x, PyAt(af.points, k).y),
   y |-> rotate_y(args.aoa, PyAt(af.points, k).x, PyAt(af.points, k).y)]
InKernel(k) ==
  [x |-> positioned(args.aoa, PyAt(af.points, k)).x,
   y |-> positioned(args.aoa, PyAt(af.points, k)).y]

(* the normal to the chord joining the positions in the kernel of the      *)
(* neighbours of the contour point at index k, for the upper split point   *)
KernelNormal(k) ==
  [x |-> RSub(InKernel(k - 1).y, InKernel(k + 1).y),
   y |-> RSub(InKernel(k + 1).x, InKernel(k - 1).x)]
HandNormal(k) ==
  [x |-> rotate_x(args.aoa,
                  RSub(PyAt(af.points, k - 1).y, PyAt(af.points, k + 1).y),
                  RSub(PyAt(af.points, k + 1).x, PyAt(af.points, k - 1).x)),
   y |-> NormalY(k)]
NormalsAgree == HandNormal(ct.k1) = KernelNormal(ct.k1) /\ HandNormal(ct.k2) = KernelNormal(ct.k2)

(* the le and te coordinates CType reads for the outer points *)
EdgesAgree ==
  /\ af.le.x = positioned(args.aoa, af.le).x
  /\ af.te.x = positioned(args.aoa, af.te).x
  /\ af.te.y = positioned(args.aoa, af.te).y

(* C27: for every angle of attack, the split-point coordinates and the     *)
(* normal direction CType rotates by hand, and the le and te coordinates   *)
(* it uses for the outer points, equal the coordinates of those contour    *)
(* points as positioned in the kernel by the rotation of main() about      *)
(* (0.5, 0, 0).                                                            *)
C27_HandRotationMatchesKernel ==
  OuterPlaced =>
    /\ ByHand(ct.k1) = InKernel(ct.k1)
    /\ ByHand(ct.k2) = InKernel(ct.k2)
    /\ NormalsAgree
    /\ EdgesAgree

(* at an incidence, the block topology built: the normals agree, the split *)
(* points and the trailing edge do not                                     *)
C27_Witness ==
  /\ OuterPlaced
  /\ ct.built
  /\ args.aoa = Rotated
  /\ NormalsAgree
  /\ ByHand(ct.k1) # InKernel(ct.k1)
  /\ af.te.y # positioned(args.aoa, af.te).y

(* Properties of outofbounds as main() calls it. *)

(* the largest and the smallest of a non-empty set of rationals *)
Largest(S) == CHOOSE m \in S : \A v \in S : RLe(v, m)
Smallest(S) == CHOOSE m \in S : \A v \in S : RLe(m, v)
Xs(P) == {P[i].x : i \in 1..Len(P)}
Ys(P) == {P[i].y : i \in 1..Len(P)}

(* box mode: the contour thickened by the boundary layer leaves the box of *)
(* the given length and width centred on (0.5, 0)                          *)
LeavesBox(P, length, width, t) ==
  \/ RLt(RHalf(length), RAdd(RAbs(RSub(Largest(Xs(P)), <<1, 2>>)), RAbs(t)))
  \/ RLt(RHalf(length), RAdd(RAbs(RSub(Smallest(Xs(P)), <<1, 2>>)), RAbs(t)))
  \/ RLt(RHalf(width), RAdd(RAbs(Largest(Ys(P))), RAbs(t)))
  \/ RLt(RHalf(width), RAdd(RAbs(Smallest(Ys(P))), RAbs(t)))

(* circle mode: the largest distance d of a contour point from (0.5, 0)    *)
(* has d + |t| > radius, i.e. radius - |t| < 0 or d^2 > (radius - |t|)^2   *)
SquaredReach(P) ==
  Largest({RAdd(RMul(RSub(P[i].x, <<1, 2>>), RSub(P[i].x, <<1, 2>>)), RMul(P[i].y, P[i].y)) :
             i \in 1..Len(P)})
LeavesCircle(P, radius, t) ==
  \/ RLt(RSub(radius, RAbs(t)), RInt(0))
  \/ RLt(RMul(RSub(radius, RAbs(t)), RSub(radius, RAbs(t))), SquaredReach(P))

DoesNotFit ==
  IF args.box # <<>> THEN LeavesBox(af.points, args.box[1], args.box[2], BlThickness)
  ELSE LeavesCircle(af.points, args.farfield, BlThickness)

(* main() is about to call outofbounds: gen_skin will return *)
SkinReady == pc = "domain" /\ ~args.structured /\ gen_skin(af, kern).err = ""

(* C28: outofbounds ends the run exactly when the airfoil with its         *)
(* boundary layer does not fit the box (box mode) or the circle of the     *)
(* farfield radius (circle mode); otherwise it returns, and in either case *)
(* it changes neither the airfoil nor the kernel, which stay as gen_skin   *)
(* left them.                                                              *)
C28_ExitsExactlyWhenOutside ==
  [][SkinReady =>
       /\ (pc' = "exit") <=> DoesNotFit
       /\ (pc' = "ext") <=> ~DoesNotFit
       /\ af'.points = af.points
       /\ af'.le = af.le /\ af'.te = af.te
       /\ kern' = gen_skin(af, kern).kern]_vars

(* a run ended, after gen_skin, by a box too short, which a box of length  *)
(* 4 and the same width would have held                                    *)
C28_Witness ==
  /\ ~args.structured
  /\ af.splines # <<>>
  /\ pc = "exit"
  /\ args.box # <<>>
  /\ LeavesBox(af.points, args.box[1], args.box[2], BlThickness)
  /\ ~LeavesBox(af.points, RInt(4), args.box[2], BlThickness)

(* Properties of the node counts of the five blocks of CType. *)

(* the two curves each carry one transfinite call, with the same count *)
SameCount(c, d) ==
  /\ Cardinality(CallsOn(kern, c)) = 1
  /\ Cardinality(CallsOn(kern, d)) = 1
  /\ TCallOn(kern, c).n = TCallOn(kern, d).n

L(i) == LineTag(ct.tags, i)

(* the opposite edges of the blocks A to E, from their curve loops *)
OppositeEdges ==
  << {<<L(7), L(0)>>, <<ct.tags.spline_front, ct.tags.circle_arc>>},
     {<<L(0), L(8)>>, <<L(1), ct.tags.upper_spline_back>>},
     {<<L(8), L(3)>>, <<L(2), L(10)>>},
     {<<L(9), L(4)>>, <<L(10), L(5)>>},
     {<<L(7), L(9)>>, <<ct.tags.lower_spline_back, L(6)>>} >>

(* C29: in each of the five transfinite blocks the two edges of each       *)
(* opposite pair carry the same node count, whatever branch the calls for  *)
(* the front spline, the arc, L1 and L6 took.                              *)
C29_OppositeEdgesMatch ==
  CTypeBuilt =>
    \A b \in 1..5 : \A pair \in OppositeEdges[b] : SameCount(pair[1], pair[2])

(* a built topology whose wall-normal, wake, front and airfoil counts all  *)
(* differ, with L1 and L6 in different branches                            *)
C29_Witness ==
  /\ CTypeBuilt
  /\ Cardinality({ct.nb_points_y, ct.nb_points_wake, ct.nb_airfoil, ct.nb_airfoil_front}) = 4
  /\ TCallOn(kern, L(1)).coef # TCallOn(kern, L(6)).coef
  /\ TCallOn(kern, L(1)).n = ct.nb_airfoil
  /\ TCallOn(kern, L(6)).n = ct.nb_airfoil

(* Properties of the discretizations of L1 and L6. *)

(* a built topology whose outer points 1 and 7 have the same x *)
SymmetricInlet == CTypeBuilt /\ ct.pt1x = ct.pt7x

(* the call is the uniform one: setTransfiniteCurve(tag, nb_airfoil) *)
Uniform(call) == call.law = "Progression" /\ call.coef = Coef(RInt(1))

(* the two calls mirror one another: same count, same law, reciprocal      *)
(* ratios, both under a square root or neither                             *)
Mirrored(c1, c6) ==
  /\ c1.n = c6.n
  /\ c1.law = c6.law
  /\ c1.coef.sqrt = c6.coef.sqrt
  /\ ~RIsZero(c6.coef.v) /\ c1.coef.v = RInv(c6.coef.v)
  /\ Uniform(c1) <=> Uniform(c6)

(* C30: when pt1x = pt7x, L1 and L6 get mirrored discretizations for every *)
(* value of pt1x: the same count and law, 1/r on L1 exactly when r on L6,  *)
(* 1/sqrt(r) exactly when sqrt(r), uniform exactly when uniform.           *)
C30_L1MirrorsL6 ==
  SymmetricInlet => Mirrored(TCallOn(kern, L(1)), TCallOn(kern, L(6)))

(* pt1x = pt7x between le.x - 0.7 and le.x - 0.4: L1 uniform, L6 graded    *)
(* with sqrt(ratio_airfoil)                                                *)
C30_Witness ==
  /\ SymmetricInlet
  /\ RLe(RSub(af.le.x, L1_MID), ct.pt1x)
  /\ RLt(ct.pt7x, RSub(af.le.x, L6_MID))
  /\ Uniform(TCallOn(kern, L(1)))
  /\ TCallOn(kern, L(6)).coef = SqrtCoef(ct.ratio_airfoil)

=============================================================================
